---- MODULE Spec2Model ----
(***************************************************************************)
(* Verification model of the news-selection and deduplication pipeline of  *)
(* newsbot-js: the seen-item store (DataManager), the similarity index     *)
(* (SimilarityChecker / EmbeddingService.cosineSimilarity), the endpoint   *)
(* fetch pipelines (RedditEndpoint, TheNewsAPIEndpoint) and the scheduler  *)
(* (NewsBot).                                                              *)
(*                                                                         *)
(* The module holds several specifications over one set of variables; a    *)
(* specification leaves the variables of the other parts untouched:        *)
(*   SpecStore  the seen-item store over process restarts and time         *)
(*   SpecSim    SimilarityChecker.checkSimilarity / updateThreshold        *)
(*   SpecFetch  sequential fetchUpdate calls of one endpoint               *)
(*   Spec       the scheduler loop with the manual entry points            *)
(***************************************************************************)
EXTENDS Integers, Sequences, FiniteSets, TLC

VARIABLES
    \* ---- seen-item store (DataManager) ----
    now,               \* Date.now() / 1000, in seconds
    phase,             \* "down" | "constructed" | "running": process lifecycle
    seenItems,         \* DataManager.seenItems: source -> (itemId -> timestamp | Absent)
    retentionPeriods,  \* DataManager.retentionPeriods: source -> seconds | Unset
    seenFile,          \* <source>_seen_items.csv: source -> (itemId -> timestamp | Absent)
    marked,            \* history: time of the last markItemAsSeen(s, i) that was also persisted
    loadRead,          \* history: source -> whether the latest load could read its file
    storeWrites,       \* history: number of markItemAsSeen calls
    \* ---- similarity index (SimilarityChecker) ----
    recentHeadlines,     \* SimilarityChecker.recentHeadlines, in Map insertion order
    similarityThreshold, \* options.similarityThreshold, in hundredths
    simResult,           \* the latest checkSimilarity call and what it returned, or NoResult
    pruneCall,           \* history: the latest pruneOldHeadlines call, or NoPrune
    \* ---- endpoint fetch pipeline (RedditEndpoint, TheNewsAPIEndpoint) ----
    endpoint,               \* the endpoint whose fetchUpdate is followed
    feed,                   \* the items its source can answer with
    diskOk,                 \* whether writes to the data directory succeed
    vectorEmbeddingEnabled, \* this.vectorEmbeddingEnabled && this.similarityChecker
    isEnabled,              \* BaseEndpoint.isEnabled of the endpoint followed
    embeddingInit,          \* history: how initialize() left the embedding provider:
                            \* "off" (not configured), "ok" or "failed"
    enableResult,           \* history: the latest enableVectorEmbedding call: "none",
                            \* "enabled" or "failed"
    embedCache,             \* EmbeddingService.cache: the texts with a cached embedding
    call,                   \* caller -> the state of its fetchUpdate call
    fetches,                \* number of fetchUpdate calls started
    returned,               \* history: the item ids fetchUpdate has returned so far
    markLog,                \* history: the markItemAsSeen calls of the latest step
    \* ---- NewsBot scheduling (timer, cycles) and the other entry points ----
    lifecycle,           \* "initialized", "started" (Application.start), "shutdown" (NewsBot.shutdown
                         \* has stopped the loop and shut the endpoints down), then "down" or "threw"
    isRunning,           \* NewsBot.isRunning
    newsInterval,        \* NewsBot.newsInterval: "null", or the handle of the timer armed
                         \* last: "set" while that timer is pending, "fired" once it fired
    pendingTimers,       \* the setTimeout callbacks armed and not yet fired or cleared
    currentInterval,     \* NewsBot.currentIntervalMinutes, in seconds
    baseIntervalMinutes, \* NewsBot.baseIntervalMinutes = config.getIntervalMinutes()
    lastCycle,           \* history: how the latest timer callback ended, until the next starts
    enabled,             \* endpoint -> BaseEndpoint.isEnabled
    cyc,                 \* slot -> a timer callback (scheduled cycle) and where it stands
    ext,                 \* entry point -> a control-panel or chat request and where it stands
    \* ---- MarketauxEndpoint: the daily request quota ----
    mxPhase,             \* "constructed", "registered" (registerEndpoint) or "initialized"
    mxEnabled,           \* MarketauxEndpoint.isEnabled
    mxToken,             \* whether apiConfig.token is set
    requestsToday,       \* MarketauxEndpoint.requestsToday
    lastRequestDate,     \* MarketauxEndpoint.lastRequestDate (a day number, NoDate for '')
    countFile,           \* marketaux_request_count.csv: [date, count], or NoCount
    mxCall,              \* caller -> where its marketaux fetchUpdate call stands
    mxCalls,             \* number of marketaux fetchUpdate calls made
    httpSent,            \* history: day -> HTTP requests sent to marketaux on that day
    mxLast,              \* history: what the latest step of the endpoint did
    \* ---- endpoint weights and the weighted pick ----
    weight,              \* endpoint -> BaseEndpoint.weight
    picked,              \* the latest selectRandomEndpoint call and what it returned
    \* ---- the language heuristic ----
    languageCheck,       \* the latest isEnglishContent call and what it returned
    \* ---- delivery (NewsBot.sendNews, DiscordService.sendToChannels) ----
    delivery             \* the latest sendNews call and what it did

storeVars == <<now, phase, seenItems, retentionPeriods, seenFile, marked, loadRead, storeWrites>>

simVars == <<recentHeadlines, similarityThreshold, simResult, pruneCall>>

fetchVars == <<endpoint, feed, diskOk, vectorEmbeddingEnabled, isEnabled, embeddingInit, enableResult,
               embedCache, call, fetches, returned, markLog>>

fetchSwitches == <<isEnabled, embeddingInit, enableResult>>

schedVars == <<lifecycle, isRunning, newsInterval, pendingTimers, currentInterval,
              baseIntervalMinutes, lastCycle, enabled,
               cyc, ext>>

mxVars == <<mxPhase, mxEnabled, mxToken, requestsToday, lastRequestDate, countFile, mxCall, mxCalls,
            httpSent, mxLast>>

pickVars == <<weight, picked>>

langVars == << languageCheck >>

sendVars == << delivery >>

vars == <<storeVars, simVars, fetchVars, schedVars, mxVars, pickVars, langVars, sendVars>>

\* What the actions of one part leave alone.
outsideStore == <<simVars, fetchVars, schedVars, mxVars, pickVars, langVars, sendVars>>
outsideSim == <<phase, seenItems, retentionPeriods, seenFile, marked, loadRead, storeWrites,
                fetchVars, schedVars, mxVars, pickVars, langVars, sendVars>>
outsideFetch == <<feed, diskOk, phase, retentionPeriods, marked, loadRead, storeWrites,
                  similarityThreshold, simResult, pruneCall, schedVars, mxVars, pickVars, langVars, sendVars>>
outsideSched == <<baseIntervalMinutes, now, phase, retentionPeriods, marked, loadRead,
                  storeWrites, simVars, fetchVars, mxVars, pickVars, langVars, sendVars>>
outsideMx == <<mxToken, phase, retentionPeriods, marked, loadRead, storeWrites, simVars, fetchVars,
               schedVars, pickVars, langVars, sendVars>>
outsidePick == <<storeVars, simVars, fetchVars, schedVars, mxVars, langVars, sendVars>>
outsideLang == <<storeVars, simVars, fetchVars, schedVars, mxVars, pickVars, sendVars>>
outsideSend == <<storeVars, simVars, fetchVars, schedVars, mxVars, pickVars, langVars>>

\* ------------------------------------------------------------------------
\* Bounds and domains
\* ------------------------------------------------------------------------

\* The clock advances in steps of one day ...
TickSeconds == 24 * 60 * 60
\* ... up to this many steps (past the 7-day retention).
MaxTicks == 8
\* markItemAsSeen is called at most this many times in a behaviour of SpecStore.
MaxWrites == 2

Sources == {"reddit", "congress"}
ItemIds == {"a1", "b2"}

Absent == -1
Unset == -1

Times == {k * TickSeconds : k \in 0..MaxTicks}

EmptyMap == [i \in ItemIds |-> Absent]

\* ------------------------------------------------------------------------
\* DataManager
\* ------------------------------------------------------------------------

\* getRetentionPeriod: the configured period, or 24 hours when none is set.
GetRetentionPeriod(periods, s) ==
    IF periods[s] # Unset /\ periods[s] # 0 THEN periods[s] ELSE 24 * 60 * 60

\* The period each endpoint's constructor passes to setRetentionPeriod.
EndpointRetention(s) ==
    CASE s = "reddit"     -> 24 * 60 * 60
      [] s = "thenewsapi" -> 24 * 60 * 60
      [] s = "congress"   -> 7 * 24 * 60 * 60
      [] s = "asteroid"   -> 7 * 24 * 60 * 60
      [] s = "marketaux"  -> 7 * 24 * 60 * 60

\* A store that answers "not seen" whatever it holds.
NeverSeen(items, s, i) == FALSE

\* hasSeenItem: membership in the in-memory map; the clock is not consulted.
HasSeenItem(items, s, i) == items[s][i] # Absent

\* cleanupOldItems' test for one entry.
IsExpired(periods, s, timestamp, t) ==
    t - timestamp > GetRetentionPeriod(periods, s)

\* cleanupOldItems: the map of source s without its expired entries.
CleanupOldItems(periods, s, m, t) ==
    [i \in ItemIds |->
        IF m[i] # Absent /\ IsExpired(periods, s, m[i], t) THEN Absent ELSE m[i]]

\* loadSeenItems: the parsed file (or the empty map on a read failure), then cleanup.
LoadSeenItems(periods, s, file, readOk, t) ==
    CleanupOldItems(periods, s, IF readOk THEN file ELSE EmptyMap, t)

\* new DataManager(): loadAllData loads every <source>_seen_items.csv and runs
\* cleanupOldItems on each; a cleanup that removed something rewrites the file
\* (saveSeenItems; a failing write is logged and leaves the file as it was).
DataManagerNew ==
    /\ phase = "down"
    /\ \E readOk \in [Sources -> BOOLEAN], writeOk \in [Sources -> BOOLEAN] :
          LET before == [s \in Sources |-> IF readOk[s] THEN seenFile[s] ELSE EmptyMap]
              loaded == [s \in Sources |->
                            LoadSeenItems(retentionPeriods, s, seenFile[s], readOk[s], now)]
          IN /\ seenItems' = loaded
             /\ seenFile' = [s \in Sources |->
                                IF loaded[s] # before[s] /\ writeOk[s]
                                THEN loaded[s] ELSE seenFile[s]]
             /\ loadRead' = readOk
    /\ phase' = "constructed"
    /\ UNCHANGED <<now, retentionPeriods, marked, storeWrites>>
    /\ UNCHANGED outsideStore

\* Application.registerEndpoints: every endpoint constructor calls
\* dataManager.setRetentionPeriod(name, period).
RegisterEndpoints ==
    /\ phase = "constructed"
    /\ retentionPeriods' = [s \in Sources |-> EndpointRetention(s)]
    /\ phase' = "running"
    /\ UNCHANGED <<now, seenItems, seenFile, marked, loadRead, storeWrites>>
    /\ UNCHANGED outsideStore

\* markItemAsSeen: set (or refresh) the timestamp, then saveSeenItems.
\* A markItemAsSeen that gives up when the file cannot be written.
MarkOnlyIfSaved(items, s, i, t) ==
    IF diskOk THEN [items EXCEPT ![s][i] = t] ELSE items

MarkItemAsSeen(items, s, i, t) ==
    [items EXCEPT ![s][i] = t]

\* saveSeenItems: the whole map of the source replaces the file, unless the write fails.
SaveSeenItems(file, items, s, writeOk) ==
    IF writeOk THEN [file EXCEPT ![s] = items[s]] ELSE file

StoreMark(s, i) ==
    /\ phase = "running"
    /\ storeWrites < MaxWrites
    /\ \E writeOk \in BOOLEAN :
          /\ seenItems' = MarkItemAsSeen(seenItems, s, i, now)
          /\ seenFile' = SaveSeenItems(seenFile, seenItems', s, writeOk)
          /\ marked' = IF writeOk THEN [marked EXCEPT ![s][i] = now] ELSE marked
    /\ storeWrites' = storeWrites + 1
    /\ UNCHANGED <<now, phase, retentionPeriods, loadRead>>
    /\ UNCHANGED outsideStore

\* Time passes.
Tick ==
    /\ now < MaxTicks * TickSeconds
    /\ now' = now + TickSeconds
    /\ UNCHANGED <<phase, seenItems, retentionPeriods, seenFile, marked, loadRead, storeWrites>>
    /\ UNCHANGED outsideStore

\* The process exits (shutdown or crash): the in-memory maps are gone, the files stay.
ProcessExit ==
    /\ phase = "running"
    /\ phase' = "down"
    /\ seenItems' = [s \in Sources |-> EmptyMap]
    /\ retentionPeriods' = [s \in Sources |-> Unset]
    /\ UNCHANGED <<now, seenFile, marked, loadRead, storeWrites>>
    /\ UNCHANGED outsideStore

StoreInit ==
    /\ now = 0
    /\ phase = "down"
    /\ seenItems = [s \in Sources |-> EmptyMap]
    /\ retentionPeriods = [s \in Sources |-> Unset]
    /\ seenFile = [s \in Sources |-> EmptyMap]
    /\ marked = [s \in Sources |-> EmptyMap]
    /\ loadRead = [s \in Sources |-> TRUE]
    /\ storeWrites = 0

\* ------------------------------------------------------------------------
\* EmbeddingService / SimilarityChecker
\* ------------------------------------------------------------------------

\* options.maxHistorySize (500 in the endpoints), scaled down.
MaxHistorySize == 2
\* The clock of SpecSim advances up to this many steps (past the 48-hour retention).
SimMaxTicks == 3

\* options.retentionHours as the endpoints pass it.
RetentionHours == 48

Headlines == {"h1", "h2", "h3", "h4"}
NoHeadline == "null"
NoVec == <<>>
NoResult == [query |-> NoHeadline]
NoPrune == [at |-> -1]

\* The embedding provider as a text -> vector function. The vectors have integral
\* norms, so that every cosine below is an exact number of hundredths:
\* cos(h1,h2) = 0.96, cos(h1,h3) = 0.60, cos(h1,h4) = -0.80,
\* cos(h2,h3) = 0.80, cos(h2,h4) = -0.60, cos(h3,h4) = 0.00.
Embed(h) ==
    CASE h = "h1" -> <<3, 4>>
      [] h = "h2" -> <<4, 3>>
      [] h = "h3" -> <<1, 0>>
      [] h = "h4" -> <<0, -1>>

\* getEmbedding: the vector, or null when the model call fails.
GetEmbedding(h, embedOk) == IF embedOk THEN Embed(h) ELSE NoVec

RECURSIVE DotProduct(_, _, _)
DotProduct(a, b, k) ==
    IF k = 0 THEN 0 ELSE a[k] * b[k] + DotProduct(a, b, k - 1)

\* Math.sqrt on the sums of squares that occur (all perfect squares).
Sqrt(n) == CHOOSE r \in 0..n : r * r = n

\* EmbeddingService.cosineSimilarity, in hundredths.
CosineSimilarity(vecA, vecB) ==
    IF vecA = NoVec \/ vecB = NoVec \/ Len(vecA) # Len(vecB) THEN 0
    ELSE LET dotProduct == DotProduct(vecA, vecB, Len(vecA))
             normA == DotProduct(vecA, vecA, Len(vecA))
             normB == DotProduct(vecB, vecB, Len(vecB))
         IN IF normA = 0 \/ normB = 0 THEN 0
            ELSE (100 * dotProduct) \div (Sqrt(normA) * Sqrt(normB))

\* The first maxSimilarity of checkSimilarity's scan.
InitialMaxSimilarity == 0

\* checkSimilarity's loop over recentHeadlines.entries(), from entry k on, with the
\* running maximum: an entry replaces it only when strictly more similar.
RECURSIVE ScanHeadlines(_, _, _, _, _)
ScanHeadlines(entries, newEmbedding, k, maxSimilarity, mostSimilarHeadline) ==
    IF k > Len(entries)
    THEN [similarity |-> maxSimilarity, similarHeadline |-> mostSimilarHeadline]
    ELSE LET similarity == CosineSimilarity(newEmbedding, entries[k].embedding)
         IN IF similarity > maxSimilarity
            THEN ScanHeadlines(entries, newEmbedding, k + 1, similarity, entries[k].headline)
            ELSE ScanHeadlines(entries, newEmbedding, k + 1, maxSimilarity, mostSimilarHeadline)

\* A check that reports every candidate a duplicate, embedded or not.
CheckSimilarityFailClosed(entries, threshold, newHeadline, embedOk) ==
    [isSimilar |-> TRUE, similarity |-> 100, similarHeadline |-> NoHeadline]

\* checkSimilarity(newHeadline): {isSimilar, similarity, similarHeadline}.
CheckSimilarity(entries, threshold, newHeadline, embedOk) ==
    LET newEmbedding == GetEmbedding(newHeadline, embedOk)
    IN IF newEmbedding = NoVec
       THEN [isSimilar |-> FALSE, similarity |-> 0, similarHeadline |-> NoHeadline]
       ELSE LET best == ScanHeadlines(entries, newEmbedding, 1,
                                      InitialMaxSimilarity, NoHeadline)
            IN [isSimilar |-> best.similarity >= threshold,
                similarity |-> best.similarity,
                similarHeadline |-> best.similarHeadline]

\* updateThreshold: Math.max(0, Math.min(1, newThreshold)), in hundredths.
ClampThreshold(newThreshold) ==
    LET upper == IF newThreshold < 100 THEN newThreshold ELSE 100
    IN IF upper > 0 THEN upper ELSE 0

\* Map.set: an existing key keeps its place, a new key goes last.
MapSet(entries, entry) ==
    IF \E k \in 1..Len(entries) : entries[k].headline = entry.headline
    THEN [k \in 1..Len(entries) |->
             IF entries[k].headline = entry.headline THEN entry ELSE entries[k]]
    ELSE Append(entries, entry)

\* A prune that deletes nothing for its age.
KeepAll(entries, cutoffTime) == entries

\* The loop deleting the entries with timestamp < cutoffTime, order kept.
RECURSIVE KeepFresh(_, _)
KeepFresh(entries, cutoffTime) ==
    IF entries = <<>> THEN <<>>
    ELSE IF Head(entries).timestamp < cutoffTime
         THEN KeepFresh(Tail(entries), cutoffTime)
         ELSE <<Head(entries)>> \o KeepFresh(Tail(entries), cutoffTime)

\* The position of the first entry of the stable sort by timestamp.
OldestIndex(entries) ==
    CHOOSE k \in 1..Len(entries) :
        \A j \in 1..Len(entries) :
            \/ entries[k].timestamp < entries[j].timestamp
            \/ (entries[k].timestamp = entries[j].timestamp /\ k <= j)

RemoveAt(entries, k) ==
    SubSeq(entries, 1, k - 1) \o SubSeq(entries, k + 1, Len(entries))

\* entries.sort(by timestamp).slice(0, size - maxHistorySize) deleted one by one.
RECURSIVE DropOldest(_, _)
DropOldest(entries, count) ==
    IF count <= 0 \/ entries = <<>> THEN entries
    ELSE DropOldest(RemoveAt(entries, OldestIndex(entries)), count - 1)

\* pruneOldHeadlines: age first, then size.
PruneOldHeadlines(entries, t) ==
    LET cutoffTime == t - RetentionHours * 60 * 60
        fresh == KeepFresh(entries, cutoffTime)
    IN IF Len(fresh) > MaxHistorySize
       THEN DropOldest(fresh, Len(fresh) - MaxHistorySize)
       ELSE fresh

\* recentHeadlines.set(headline, {embedding, timestamp: Date.now() / 1000}).
SetHeadline(entries, headline, embedding, t) ==
    MapSet(entries, [headline |-> headline, embedding |-> embedding, timestamp |-> t])

\* An index that records nothing.
AddNothing(entries, headline, embedOk, t) == entries

\* addHeadline: record the headline when an embedding is available, then prune.
AddHeadline(entries, headline, embedOk, t) ==
    LET embedding == GetEmbedding(headline, embedOk)
    IN IF embedding # NoVec
       THEN PruneOldHeadlines(SetHeadline(entries, headline, embedding, t), t)
       ELSE entries

SimIdle ==
    /\ recentHeadlines = <<>>
    /\ similarityThreshold = 85
    /\ simResult = NoResult
    /\ pruneCall = NoPrune

\* The values POST /api/similarity-threshold passes: below, inside and above [0, 1].
ThresholdInputs == {-10, 0, 60, 85, 100, 150}

SimUpdateThreshold(newThreshold) ==
    /\ similarityThreshold' = ClampThreshold(newThreshold)
    /\ simResult' = NoResult
    /\ pruneCall' = NoPrune
    /\ UNCHANGED <<recentHeadlines, now, outsideSim>>

SimAddHeadline(h, embedOk) ==
    /\ recentHeadlines' = AddHeadline(recentHeadlines, h, embedOk, now)
    /\ simResult' = NoResult
    /\ pruneCall' = IF GetEmbedding(h, embedOk) # NoVec
                    THEN [at |-> now,
                          before |-> SetHeadline(recentHeadlines, h,
                                                 GetEmbedding(h, embedOk), now)]
                    ELSE NoPrune
    /\ UNCHANGED <<similarityThreshold, now, outsideSim>>

SimCheck(h, embedOk) ==
    /\ simResult' = [query |-> h, embedded |-> embedOk,
                     result |-> CheckSimilarity(recentHeadlines, similarityThreshold,
                                                h, embedOk)]
    /\ pruneCall' = NoPrune
    /\ UNCHANGED <<recentHeadlines, similarityThreshold, now, outsideSim>>

SimTick ==
    /\ now < SimMaxTicks * TickSeconds
    /\ now' = now + TickSeconds
    /\ simResult' = NoResult
    /\ pruneCall' = NoPrune
    /\ UNCHANGED <<recentHeadlines, similarityThreshold, outsideSim>>

\* ------------------------------------------------------------------------
\* Endpoint fetch pipelines
\* ------------------------------------------------------------------------

\* A behaviour of SpecFetch makes at most this many fetchUpdate calls.
MaxFetches == 3
\* A source answers with at most this many items.
MaxBatch == 2
\* The clock of SpecFetch advances up to this many steps, each one past the
\* 24-hour lookback of the endpoints.
FetchMaxTicks == 1
FetchTickSeconds == 2 * 24 * 60 * 60

FetchEndpoints == {"reddit", "thenewsapi"}
FetchItemIds == {"a1", "b2", "c3", "d4"}
NoItem == [id |-> "null"]

\* this.bannedKeywords (banned_keywords.csv).
BannedKeywords == {"OnlyFans"}

\* String.toLowerCase on the URL parts and keywords that occur.
ToLowerCase(text) ==
    CASE text = "OnlyFans" -> "onlyfans"
      [] text = "ONLYFANS" -> "onlyfans"
      [] OTHER -> text

\* What the reddit listing can hold: a fresh post, a post whose headline nearly
\* repeats the first one's, a post with a banned URL (in another letter case than
\* the keyword) and a post by another author. A URL is the sequence of its parts.
RedditPosts ==
    {[id |-> "a1", title |-> "h1", created |-> 0, author |-> "alice",
      url |-> <<"x.com", "a1">>, language |-> "en", english |-> TRUE, complete |-> TRUE],
     [id |-> "b2", title |-> "h2", created |-> 0, author |-> "alice",
      url |-> <<"x.com", "b2">>, language |-> "en", english |-> TRUE, complete |-> TRUE],
     [id |-> "c3", title |-> "h3", created |-> 0, author |-> "alice",
      url |-> <<"ONLYFANS", "c3">>, language |-> "en", english |-> TRUE, complete |-> TRUE],
     [id |-> "d4", title |-> "h4", created |-> 0, author |-> "bob",
      url |-> <<"x.com", "d4">>, language |-> "en", english |-> TRUE, complete |-> TRUE]}

\* What TheNewsAPI can answer: an article, a near repeat of it, an article that is
\* not in English and an article without a url.
NewsApiArticles ==
    {[id |-> "a1", title |-> "h1", created |-> 0, author |-> "any",
      url |-> <<"n.com", "a1">>, language |-> "en", english |-> TRUE, complete |-> TRUE],
     [id |-> "b2", title |-> "h2", created |-> 0, author |-> "any",
      url |-> <<"n.com", "b2">>, language |-> "en", english |-> TRUE, complete |-> TRUE],
     [id |-> "c3", title |-> "h3", created |-> 0, author |-> "any",
      url |-> <<"n.com", "c3">>, language |-> "de", english |-> FALSE, complete |-> TRUE],
     [id |-> "d4", title |-> "h4", created |-> 0, author |-> "any",
      url |-> <<>>, language |-> "en", english |-> TRUE, complete |-> FALSE]}

Universe(ep) == IF ep = "reddit" THEN RedditPosts ELSE NewsApiArticles

\* new Date(published_at).getTime() of a missing or unparseable date (reddit: a
\* missing created_utc): not a number, for which every comparison is false.
NaN == -1

\* A source whose first item carries no date that can be read.
UndatedFeed(ep) ==
    {IF p.id = "a1" THEN [p EXCEPT !.created = NaN] ELSE p : p \in Universe(ep)}

\* The answers of a source: the sequences of distinct items, up to MaxBatch long.
RECURSIVE SeqsUpTo(_, _)
SeqsUpTo(items, n) ==
    IF n = 0 THEN {<<>>}
    ELSE LET shorter == SeqsUpTo(items, n - 1)
         IN shorter \cup {Append(q, x) : q \in {r \in shorter : Len(r) = n - 1},
                                         x \in items}

Batches(items) ==
    {b \in SeqsUpTo(items, MaxBatch) :
        \A j, k \in 1..Len(b) : j # k => b[j] # b[k]}

\* reddit: this.sources (jsonUrl -> author), here one feed for any author and one
\* for a named author, tried in a shuffled order. thenewsapi: headlines, then top.
SourceOrders(ep) ==
    IF ep = "reddit" THEN {<<"any", "alice">>, <<"alice", "any">>}
    ELSE {<<"any", "any">>}

\* A recency filter that lets every post through.
NeverOld(post, at) == FALSE

\* "Skip old posts": created_utc < thresholdTimestamp, the threshold being 24 h
\* before the time at which fetchFromSource started (reddit);
\* hoursSincePublished > 24 at the time at the loop reaches the article (thenewsapi).
IsOld(post, at) == post.created # NaN /\ post.created < at - 24 * 60 * 60

\* "Skip if author doesn't match (unless 'any')".
AuthorMismatch(post, author) == author # "any" /\ post.author # author

\* isUrlBanned: some banned keyword occurs in the URL, letter case ignored.
IsUrlBanned(url) ==
    \E keyword \in BannedKeywords, k \in 1..Len(url) :
        ToLowerCase(url[k]) = ToLowerCase(keyword)

\* "!url || this.isUrlBanned(url)".
IsDenied(post) == post.url = <<>> \/ IsUrlBanned(post.url)

\* isEnglishContent, by its answer on the article.
IsEnglishContent(post) == (post.language = "en") /\ post.english

\* What a markItemAsSeen call was made for: the facts about the candidate then.
MarkEntry(items, ep, post, author, at, checked, similar) ==
    [id |-> post.id, old |-> (post.created # NaN /\ at - post.created > 24 * 60 * 60),
     authorOk |-> (author = "any" \/ post.author = author),
     complete |-> post.complete, denied |-> IsDenied(post),
     english |-> IsEnglishContent(post), seenBefore |-> HasSeenItem(items, ep, post.id),
     checked |-> checked, similar |-> similar]

\* RedditEndpoint.fetchFromSource's loop from post k on, up to its next await, its
\* return or its end: the store and the mark history as the loop leaves them.
RECURSIVE RedditLoop(_, _, _, _, _, _, _, _)
RedditLoop(items, batch, k, author, at, t, vec, log) ==
    IF k > Len(batch) THEN [stop |-> "end", idx |-> k, items |-> items, log |-> log]
    ELSE LET post == batch[k]
         IN IF IsOld(post, at) THEN RedditLoop(items, batch, k + 1, author, at, t, vec, log)
            ELSE IF AuthorMismatch(post, author)
            THEN RedditLoop(items, batch, k + 1, author, at, t, vec, log)
            ELSE IF IsDenied(post)
            THEN RedditLoop(MarkItemAsSeen(items, "reddit", post.id, t), batch, k + 1,
                            author, at, t, vec,
                            Append(log, MarkEntry(items, "reddit", post, author, at,
                                                  FALSE, FALSE)))
            ELSE IF HasSeenItem(items, "reddit", post.id)
            THEN RedditLoop(items, batch, k + 1, author, at, t, vec, log)
            ELSE IF vec
            THEN [stop |-> "await", idx |-> k, items |-> items, log |-> log]
            ELSE [stop |-> "return", idx |-> k,
                  items |-> MarkItemAsSeen(items, "reddit", post.id, t),
                  log |-> Append(log, MarkEntry(items, "reddit", post, author, at,
                                                FALSE, FALSE))]

\* TheNewsAPIEndpoint.fetchFromEndpoint's loop, likewise.
RECURSIVE NewsApiLoop(_, _, _, _, _, _, _, _)
NewsApiLoop(items, batch, k, author, at, t, vec, log) ==
    IF k > Len(batch) THEN [stop |-> "end", idx |-> k, items |-> items, log |-> log]
    ELSE LET post == batch[k]
         IN IF ~post.complete THEN NewsApiLoop(items, batch, k + 1, author, at, t, vec, log)
            ELSE IF IsOld(post, at)
            THEN NewsApiLoop(items, batch, k + 1, author, at, t, vec, log)
            ELSE IF HasSeenItem(items, "thenewsapi", post.id)
            THEN NewsApiLoop(items, batch, k + 1, author, at, t, vec, log)
            ELSE IF ~IsEnglishContent(post)
            THEN NewsApiLoop(MarkItemAsSeen(items, "thenewsapi", post.id, t), batch, k + 1,
                             author, at, t, vec,
                             Append(log, MarkEntry(items, "thenewsapi", post, author, at,
                                                   FALSE, FALSE)))
            ELSE IF vec
            THEN [stop |-> "await", idx |-> k, items |-> items, log |-> log]
            ELSE [stop |-> "return", idx |-> k,
                  items |-> MarkItemAsSeen(items, "thenewsapi", post.id, t),
                  log |-> Append(log, MarkEntry(items, "thenewsapi", post, author, at,
                                                FALSE, FALSE))]

\* A loop that gives the batch up at the first candidate it has to examine.
FetchLoopAborts(ep, items, batch, k, author, at, t, vec, log) ==
    LET first == SubSeq(batch, 1, IF k < Len(batch) THEN k ELSE Len(batch))
    IN IF ep = "reddit" THEN RedditLoop(items, first, k, author, at, t, vec, log)
       ELSE NewsApiLoop(items, first, k, author, t, t, vec, log)

\* The loop of the endpoint, run at time t by a call whose fetchFromSource
\* started at time at.
FetchLoop(ep, items, batch, k, author, at, t, vec, log) ==
    IF ep = "reddit" THEN RedditLoop(items, batch, k, author, at, t, vec, log)
    ELSE NewsApiLoop(items, batch, k, author, t, t, vec, log)

\* A markItemAsSeen call for a candidate that no filter rejected.
IsAcceptance(entry) == ~entry.denied /\ entry.english /\ ~entry.similar

Acceptances(log) == Cardinality({k \in 1..Len(log) : IsAcceptance(log[k])})

IdleCall ==
    [pc |-> "idle", order |-> <<>>, batch |-> <<>>, idx |-> 0, result |-> NoItem,
     at |-> 0, accepted |-> 0]

\* The call after its loop stopped: awaiting checkSimilarity, returning the item,
\* or going on to the next source (fetchUpdate's own loop), with nothing found
\* once the sources are exhausted.
AfterLoop(c, lp, batch) ==
    CASE lp.stop = "await" ->
            [c EXCEPT !.pc = "check", !.batch = batch, !.idx = lp.idx,
                      !.at = IF endpoint = "reddit" THEN c.at ELSE now]
      [] lp.stop = "return" ->
            [c EXCEPT !.pc = "done", !.batch = batch, !.idx = lp.idx,
                      !.result = batch[lp.idx]]
      [] lp.stop = "end" ->
            IF Len(c.order) > 1
            THEN [c EXCEPT !.pc = "http", !.order = Tail(c.order), !.batch = <<>>, !.idx = 0,
                           !.at = now]
            ELSE [c EXCEPT !.pc = "done", !.batch = batch, !.idx = lp.idx,
                           !.result = NoItem]

\* The history of one step's markItemAsSeen calls and of the call's return.
RecordHistory(newLog, next) ==
    /\ markLog' = newLog
    /\ returned' = IF next.pc = "done" /\ next.result # NoItem
                   THEN returned \cup {next.result.id}
                   ELSE returned

\* saveSeenItems after each markItemAsSeen of one step: the file takes the map
\* unless the write fails.
SaveAfterMarks(newItems, log) ==
    IF log # <<>> /\ diskOk THEN newItems ELSE seenFile

\* fetchUpdate is called: the sources are shuffled and the first request is sent.
\* A fetchUpdate that never returns before its request.
NeverAtOnce(en) == FALSE

\* fetchUpdate's first statement, if (!this.isEnabled) return null: whether the
\* call returns before any request is made.
ReturnsAtOnce(en) == ~en

\* fetchUpdate is called, whatever other calls are in flight (the scheduled
\* cycle, POST /api/fetch/:endpoint and the chat commands do not look).
FetchUpdateBegins(who) ==
    /\ call[who].pc = "idle"
    /\ fetches < MaxFetches
    /\ fetches' = fetches + 1
    /\ IF ReturnsAtOnce(isEnabled)
       THEN call' = [call EXCEPT ![who] = [IdleCall EXCEPT !.pc = "done", !.at = now]]
       ELSE \E order \in SourceOrders(endpoint) :
               call' = [call EXCEPT ![who] = [IdleCall EXCEPT !.pc = "http",
                                                              !.order = order, !.at = now]]
    /\ UNCHANGED <<now, seenItems, seenFile, recentHeadlines, endpoint,
                   vectorEmbeddingEnabled, fetchSwitches, embedCache, returned, markLog,
                   outsideFetch>>

\* fetchUpdate called while no other call on the endpoint is in flight.
FetchUpdateStart(who) ==
    /\ \A other \in DOMAIN call : call[other].pc = "idle"
    /\ FetchUpdateBegins(who)

\* axios.get fails (timeout, network, HTTP error): caught, null from this source.
HttpError(who) ==
    /\ call[who].pc = "http"
    /\ LET c == call[who]
           next == AfterLoop(c, [stop |-> "end", idx |-> 0], <<>>)
       IN /\ call' = [call EXCEPT ![who] = next]
          /\ RecordHistory(<<>>, next)
    /\ UNCHANGED <<now, seenItems, seenFile, recentHeadlines, endpoint,
                   vectorEmbeddingEnabled, fetchSwitches, embedCache, fetches, outsideFetch>>

\* axios.get answers: the loop runs over the items up to its first await.
HttpResponse(who) ==
    /\ call[who].pc = "http"
    /\ \E batch \in Batches(feed) :
          LET c == call[who]
              lp == FetchLoop(endpoint, seenItems, batch, 1, Head(c.order), c.at, now,
                              vectorEmbeddingEnabled, <<>>)
              next == [AfterLoop(c, lp, batch) EXCEPT !.accepted = @ + Acceptances(lp.log)]
          IN /\ call' = [call EXCEPT ![who] = next]
             /\ seenItems' = lp.items
             /\ seenFile' = SaveAfterMarks(lp.items, lp.log)
             /\ RecordHistory(lp.log, next)
    /\ UNCHANGED <<now, recentHeadlines, endpoint, vectorEmbeddingEnabled, fetchSwitches, embedCache,
                   fetches, outsideFetch>>

\* await checkSimilarity(title) returns. A similar headline: the item is marked seen
\* and the loop goes on; otherwise it is marked seen and addHeadline is awaited.
CheckSimilarityReturns(who) ==
    /\ call[who].pc = "check"
    /\ \E modelOk \in BOOLEAN :
          LET c == call[who]
              post == c.batch[c.idx]
              author == Head(c.order)
              embedOk == modelOk \/ post.title \in embedCache
              r == CheckSimilarity(recentHeadlines, similarityThreshold, post.title, embedOk)
              entry == MarkEntry(seenItems, endpoint, post, author, c.at, TRUE, r.isSimilar)
              markedItems == MarkItemAsSeen(seenItems, endpoint, post.id, now)
              lp == IF r.isSimilar
                    THEN FetchLoop(endpoint, markedItems, c.batch, c.idx + 1, author, c.at,
                                   now, vectorEmbeddingEnabled, <<entry>>)
                    ELSE [stop |-> "add", idx |-> c.idx, items |-> markedItems,
                          log |-> <<entry>>]
              stepped == IF lp.stop = "add"
                         THEN IF vectorEmbeddingEnabled
                              THEN [c EXCEPT !.pc = "add"]
                              ELSE [c EXCEPT !.pc = "done", !.result = post]
                         ELSE AfterLoop(c, lp, c.batch)
              next == [stepped EXCEPT !.accepted = @ + Acceptances(lp.log)]
          IN /\ call' = [call EXCEPT ![who] = next]
             /\ seenItems' = lp.items
             /\ seenFile' = SaveAfterMarks(lp.items, lp.log)
             /\ embedCache' = IF embedOk THEN embedCache \cup {post.title} ELSE embedCache
             /\ RecordHistory(lp.log, next)
    /\ UNCHANGED <<now, recentHeadlines, endpoint, vectorEmbeddingEnabled, fetchSwitches, fetches,
                   outsideFetch>>

\* await addHeadline(title) returns, saveRecentHeadlines follows, the item is returned.
AddHeadlineReturns(who) ==
    /\ call[who].pc = "add"
    /\ \E modelOk \in BOOLEAN :
          LET c == call[who]
              post == c.batch[c.idx]
              embedOk == modelOk \/ post.title \in embedCache
              next == [c EXCEPT !.pc = "done", !.result = post]
          IN /\ recentHeadlines' = AddHeadline(recentHeadlines, post.title, embedOk, now)
             /\ embedCache' = IF embedOk THEN embedCache \cup {post.title} ELSE embedCache
             /\ call' = [call EXCEPT ![who] = next]
             /\ RecordHistory(<<>>, next)
    /\ UNCHANGED <<now, seenItems, seenFile, endpoint, vectorEmbeddingEnabled, fetchSwitches, fetches,
                   outsideFetch>>

\* The caller takes fetchUpdate's result.
FetchUpdateReturns(who) ==
    /\ call[who].pc = "done"
    /\ call' = [call EXCEPT ![who] = IdleCall]
    /\ markLog' = <<>>
    /\ UNCHANGED <<now, seenItems, seenFile, recentHeadlines, endpoint,
                   vectorEmbeddingEnabled, fetchSwitches, embedCache, fetches, returned, outsideFetch>>

\* The control panel's POST /api/endpoints/:name/enable and /disable:
\* BaseEndpoint.setEnabled(flag), at any time, also while a call is in flight.
EndpointSetEnabled(flag) ==
    /\ isEnabled # flag
    /\ isEnabled' = flag
    /\ UNCHANGED <<now, seenItems, seenFile, recentHeadlines, endpoint,
                   vectorEmbeddingEnabled, embeddingInit, enableResult, embedCache, call,
                   fetches, returned, markLog, outsideFetch>>

\* The control panel's POST /api/vector-embedding/enable:
\* RedditEndpoint.enableVectorEmbedding(). Already enabled: nothing happens. Otherwise
\* new services are built and the provider is initialized again; when that succeeds
\* the saved headlines are loaded (none: the index was not in use) and
\* vectorEmbeddingEnabled becomes true, when it throws the services are dropped and
\* the flag stays false.
EnableVectorEmbedding(providerOk) ==
    /\ endpoint = "reddit"
    /\ ~vectorEmbeddingEnabled
    /\ vectorEmbeddingEnabled' = providerOk
    /\ enableResult' = IF providerOk THEN "enabled" ELSE "failed"
    /\ UNCHANGED <<now, seenItems, seenFile, recentHeadlines, endpoint, isEnabled,
                   embeddingInit, embedCache, call, fetches, returned, markLog,
                   outsideFetch>>

\* Time passes between and during calls.
FetchTick ==
    /\ now < FetchMaxTicks * FetchTickSeconds
    /\ now' = now + FetchTickSeconds
    /\ UNCHANGED <<seenItems, seenFile, recentHeadlines, fetchVars, outsideFetch>>

SeqCallers == {"cycle"}

\* The scheduled cycle and the control panel's manual fetch.
BothCallers == {"cycle", "panel"}

FetchInit ==
    /\ now = 0
    /\ phase = "running"
    /\ endpoint \in FetchEndpoints
    /\ seenItems = [s \in {endpoint} |-> [i \in FetchItemIds |-> Absent]]
    /\ seenFile = seenItems
    /\ retentionPeriods = [s \in {endpoint} |-> EndpointRetention(s)]
    /\ marked = [s \in {endpoint} |-> [i \in FetchItemIds |-> Absent]]
    /\ loadRead = [s \in {endpoint} |-> TRUE]
    /\ storeWrites = 0
    /\ SimIdle
    /\ embeddingInit \in {"off", "ok", "failed"}
    /\ vectorEmbeddingEnabled = (embeddingInit = "ok")
    /\ isEnabled = TRUE
    /\ enableResult = "none"
    /\ embedCache = {}
    /\ call = [who \in SeqCallers |-> IdleCall]
    /\ fetches = 0
    /\ returned = {}
    /\ markLog = <<>>

\* The fetch pipeline at rest, for the specifications that do not follow it.
FetchIdle ==
    /\ endpoint = "reddit"
    /\ feed = Universe(endpoint)
    /\ diskOk = TRUE
    /\ vectorEmbeddingEnabled = TRUE
    /\ isEnabled = TRUE
    /\ embeddingInit = "ok"
    /\ enableResult = "none"
    /\ embedCache = {}
    /\ call = [who \in SeqCallers |-> IdleCall]
    /\ fetches = 0
    /\ returned = {}
    /\ markLog = <<>>

\* ------------------------------------------------------------------------
\* NewsBot: the news loop, its cycles, and the other entry points
\* ------------------------------------------------------------------------

\* At most this many timer callbacks are followed at once.
MaxSlots == 2
\* At most this many timers are armed at once.
MaxTimers == 2

CycleSlots == 1..MaxSlots
EntryPoints == {"manual", "congress"}
NoNews == "null"
Thrown == "throw"

\* INTERVAL_MINUTES as configured: below the maximum and above it.
BaseIntervals == {59, 61}
MaxIntervalMinutes == 60
IntervalIncrementSeconds == 30

\* A timer callback: where it is, the endpoints fetchNews has still to go through
\* (order), the shuffled endpoints it started with (shuffle) and, as history, the
\* endpoints whose fetchUpdate it has awaited so far (queried).
IdleCycle == [pc |-> "idle", order |-> <<>>, item |-> NoNews, yielded |-> 0, sent |-> 0,
              threw |-> FALSE, shuffle |-> <<>>, queried |-> <<>>]

\* No timer callback has ended since the latest one started.
NoCycle == [how |-> "none", fetchThrew |-> FALSE, before |-> -1, after |-> -1, delay |-> -1,
            parity |-> 0]
IdleEntry == [pc |-> "idle", ep |-> "null", item |-> NoNews]

\* getEnabledEndpoints.
GetEnabledEndpoints(en) == {e \in Sources : en[e]}

\* [...enabledEndpoints].sort(() => 0.5 - Math.random()): any order of them.
Shuffles(eps) ==
    {order \in SeqsUpTo(eps, Cardinality(eps)) :
        /\ Len(order) = Cardinality(eps)
        /\ \A j, k \in 1..Len(order) : j # k => order[j] # order[k]}

\* fetchUpdate of an endpoint that is not enabled returns null at once: the loop of
\* fetchNews passes on to the next endpoint that is.
RECURSIVE SkipDisabled(_, _)
SkipDisabled(order, en) ==
    IF order = <<>> THEN <<>>
    ELSE IF en[Head(order)] THEN order
    ELSE SkipDisabled(Tail(order), en)

\* What an endpoint's fetchUpdate can come back with: an item it has not seen
\* (which it has marked seen), null, or an exception.
FetchOutcomes(items, ep) ==
    {i \in ItemIds : ~HasSeenItem(items, ep, i)} \cup {NoNews, Thrown}

\* The store after a fetchUpdate that came back with the outcome.
StoreAfterFetch(items, ep, outcome, t) ==
    IF outcome \in ItemIds THEN MarkItemAsSeen(items, ep, outcome, t) ELSE items

\* A fetchNews that gives up at the first endpoint that yields nothing.
FetchNewsGivesUp(c, outcome, en) ==
    IF outcome \in ItemIds
    THEN [c EXCEPT !.pc = "sending", !.item = outcome, !.yielded = @ + 1, !.sent = @ + 1]
    ELSE [c EXCEPT !.pc = "nopost", !.threw = @ \/ outcome = Thrown]

\* A fetchNews that goes on to the next endpoint after an item was found.
FetchNewsGoesOn(c, outcome, en) ==
    LET rest == SkipDisabled(Tail(c.order), en)
        found == outcome \in ItemIds
        counted == IF found
                   THEN [c EXCEPT !.item = outcome, !.yielded = @ + 1, !.sent = @ + 1]
                   ELSE [c EXCEPT !.threw = @ \/ outcome = Thrown]
    IN IF rest # <<>> THEN [counted EXCEPT !.order = rest, !.queried = Append(@, Head(rest))]
       ELSE IF counted.item # NoNews THEN [counted EXCEPT !.pc = "sending"]
       ELSE [counted EXCEPT !.pc = "nopost"]

\* fetchNews after the awaited fetchUpdate of the endpoint at the head of the order:
\* an item ends the loop and is handed to sendNews, null or an exception passes on
\* to the next endpoint, and after the last one nothing was found.
FetchNews(c, outcome, en) ==
    IF outcome \in ItemIds
    THEN [c EXCEPT !.pc = "sending", !.item = outcome, !.yielded = @ + 1, !.sent = @ + 1]
    ELSE LET rest == SkipDisabled(Tail(c.order), en)
             caught == [c EXCEPT !.threw = @ \/ outcome = Thrown]
         IN IF rest = <<>> THEN [caught EXCEPT !.pc = "nopost"]
            ELSE [caught EXCEPT !.order = rest, !.queried = Append(@, Head(rest))]

\* An onSuccessfulPost that leaves the interval where it is.
IntervalKept(interval, base) == interval

\* onSuccessfulPost and onNoPostFound, on the interval in seconds.
OnSuccessfulPost(interval, base) == base * 60

OnNoPostFound(interval) ==
    LET newInterval == IF interval + IntervalIncrementSeconds < MaxIntervalMinutes * 60
                       THEN interval + IntervalIncrementSeconds
                       ELSE MaxIntervalMinutes * 60
    IN IF newInterval > interval THEN newInterval ELSE interval

\* A timer that stays armed after it fired.
TimersKeptOnFire(timers) == timers

\* setTimeout: the timer that fires is no longer armed.
TimersAfterFire(timers) == timers - 1

\* scheduleNextFetch: "intervalMs = this.currentIntervalMinutes * 60 * 1000".
IntervalMs(interval) == interval * 1000

\* A callback that arms the next timer whether or not the loop is running.
AlwaysRearmed(running, timers) == timers + 1

\* A callback that ends without arming the next timer.
NotRearmed(running, timers) == timers

\* "if (this.isRunning) this.scheduleNextFetch()".
Rearm(running, timers) == IF running THEN timers + 1 ELSE timers

InFlight == {k \in CycleSlots : cyc[k].pc # "idle"}

FreeSlot == CHOOSE k \in CycleSlots : cyc[k].pc = "idle" /\ \A j \in 1..(k - 1) : cyc[j].pc # "idle"

\* Application.start -> NewsBot.start -> startNewsLoop.
Start ==
    /\ lifecycle = "initialized"
    /\ lifecycle' = "started"
    /\ IF newsInterval # "null"
       THEN UNCHANGED <<newsInterval, pendingTimers, isRunning>>
       ELSE /\ newsInterval' = "set"
            /\ pendingTimers' = pendingTimers + 1
            /\ isRunning' = TRUE
    /\ UNCHANGED <<seenItems, seenFile, currentInterval, lastCycle, enabled, cyc, ext, outsideSched>>

\* The end of a timer callback: the next timer is armed if the loop is running.
CycleEnds(k, c, how, interval, timers, handle) ==
    /\ cyc' = [cyc EXCEPT ![k] = [c EXCEPT !.pc = "idle", !.order = <<>>, !.item = NoNews,
                                            !.threw = FALSE, !.shuffle = <<>>,
                                            !.queried = <<>>]]
    /\ currentInterval' = interval
    /\ lastCycle' = [how |-> how, fetchThrew |-> c.threw, before |-> currentInterval,
                     after |-> interval,
                     delay |-> IF isRunning THEN IntervalMs(interval) ELSE -1,
                     parity |-> 1 - lastCycle.parity]
    /\ pendingTimers' = Rearm(isRunning, timers)
    /\ newsInterval' = IF isRunning THEN "set" ELSE handle

\* The handle after a pending timer fired: the timer it names, or, when more
\* timers are pending than that one, another.
HandlesAfterFire(handle, timers) ==
    {h \in {"fired", handle} :
        \/ h = "fired" /\ handle = "set"
        \/ h = handle /\ timers > (IF handle = "set" THEN 1 ELSE 0)}

\* clearTimeout(this.newsInterval): a pending timer is removed, a handle whose
\* timer has fired removes nothing.
ClearTimeout(handle, timers) == IF handle = "set" THEN timers - 1 ELSE timers

\* The timer fires: the callback calls fetchNews, which calls the first
\* endpoint's fetchUpdate, or finds no endpoint enabled.
TimerFires ==
    /\ pendingTimers > 0
    /\ \E k \in CycleSlots : cyc[k].pc = "idle"
    /\ Rearm(isRunning, TimersAfterFire(pendingTimers)) <= MaxTimers
    /\ \E handle \in HandlesAfterFire(newsInterval, pendingTimers) :
       LET k == FreeSlot
           eps == GetEnabledEndpoints(enabled)
       IN IF eps = {}
          THEN CycleEnds(k, IdleCycle, "empty", OnNoPostFound(currentInterval),
                         TimersAfterFire(pendingTimers), handle)
          ELSE /\ \E order \in Shuffles(eps) :
                     cyc' = [cyc EXCEPT ![k] = [IdleCycle EXCEPT !.pc = "fetching",
                                                                 !.order = order,
                                                                 !.shuffle = order,
                                                                 !.queried = <<Head(order)>>]]
               /\ pendingTimers' = TimersAfterFire(pendingTimers)
               /\ lastCycle' = [NoCycle EXCEPT !.parity = lastCycle.parity]
               /\ newsInterval' = handle
               /\ UNCHANGED currentInterval
    /\ UNCHANGED <<seenItems, seenFile, lifecycle, isRunning, enabled, ext, outsideSched>>

\* The awaited fetchUpdate of a cycle comes back.
CycleFetchReturns(k) ==
    /\ cyc[k].pc = "fetching"
    /\ Rearm(isRunning, pendingTimers) <= MaxTimers
    /\ \E outcome \in FetchOutcomes(seenItems, Head(cyc[k].order)) :
          LET ep == Head(cyc[k].order)
              c == FetchNews(cyc[k], outcome, enabled)
          IN /\ seenItems' = StoreAfterFetch(seenItems, ep, outcome, now)
             /\ seenFile' = SaveSeenItems(seenFile, seenItems', ep, outcome \in ItemIds)
             /\ IF c.pc = "nopost"
                THEN CycleEnds(k, c, "empty", OnNoPostFound(currentInterval), pendingTimers,
                               newsInterval)
                ELSE /\ cyc' = [cyc EXCEPT ![k] = c]
                     /\ UNCHANGED <<currentInterval, lastCycle, pendingTimers, newsInterval>>
    /\ UNCHANGED <<lifecycle, isRunning, enabled, ext, outsideSched>>

\* The awaited sendNews of a cycle comes back: delivered to some channel, to none,
\* or with an exception.
CycleSendReturns(k) ==
    /\ cyc[k].pc = "sending"
    /\ Rearm(isRunning, pendingTimers) <= MaxTimers
    /\ \E outcome \in {"sent", "notSent", Thrown} :
          CycleEnds(k, cyc[k],
                    IF outcome = Thrown THEN "threw"
                    ELSE IF outcome = "sent" THEN "delivered" ELSE "undelivered",
                    IF outcome = Thrown THEN currentInterval
                    ELSE OnSuccessfulPost(currentInterval, baseIntervalMinutes),
                    pendingTimers, newsInterval)
    /\ UNCHANGED <<seenItems, seenFile, lifecycle, isRunning, enabled, ext, outsideSched>>

\* POST /api/fetch/:endpoint (w = "manual") and the chat command !congress
\* (w = "congress") call the endpoint's fetchUpdate.
EntryFetchStarts(w, ep) ==
    /\ lifecycle = "started"
    /\ ext[w].pc = "idle"
    /\ w = "congress" => ep = "congress"
    /\ enabled[ep]
    /\ ext' = [ext EXCEPT ![w] = [IdleEntry EXCEPT !.pc = "fetching", !.ep = ep]]
    /\ UNCHANGED <<seenItems, seenFile, lifecycle, isRunning, newsInterval, pendingTimers,
                   currentInterval, lastCycle, enabled, cyc, outsideSched>>

\* The fetchUpdate of a request comes back; an item is sent on (sendNews for the
\* control panel, message.channel.send for the chat command).
EntryFetchReturns(w) ==
    /\ ext[w].pc = "fetching"
    /\ \E outcome \in FetchOutcomes(seenItems, ext[w].ep) :
          /\ seenItems' = StoreAfterFetch(seenItems, ext[w].ep, outcome, now)
          /\ seenFile' = SaveSeenItems(seenFile, seenItems', ext[w].ep, outcome \in ItemIds)
          /\ ext' = [ext EXCEPT ![w] = IF outcome \in ItemIds
                                       THEN [@ EXCEPT !.pc = "sending", !.item = outcome]
                                       ELSE IdleEntry]
    /\ UNCHANGED <<lifecycle, isRunning, newsInterval, pendingTimers, currentInterval, lastCycle,
                   enabled, cyc, outsideSched>>

\* The send of a request comes back and the request is answered.
EntrySendReturns(w) ==
    /\ ext[w].pc = "sending"
    /\ ext' = [ext EXCEPT ![w] = IdleEntry]
    /\ UNCHANGED <<seenItems, seenFile, lifecycle, isRunning, newsInterval, pendingTimers,
                   currentInterval, lastCycle, enabled, cyc, outsideSched>>

\* POST /api/endpoints/:name/enable|disable.
SetEnabled(ep, value) ==
    /\ lifecycle = "started"
    /\ enabled[ep] # value
    /\ enabled' = [enabled EXCEPT ![ep] = value]
    /\ UNCHANGED <<seenItems, seenFile, lifecycle, isRunning, newsInterval, pendingTimers,
                   currentInterval, lastCycle, cyc, ext, outsideSched>>

\* SIGINT/SIGTERM -> Application.shutdown -> NewsBot.shutdown, up to the await of
\* discordService.shutdown(): stopNewsLoop clears the armed timer, if any (a
\* callback in progress runs on), and every endpoint is shut down, which saves its
\* similarity index and shuts its embedding service down.
Shutdown ==
    /\ lifecycle \in {"initialized", "started"}
    /\ lifecycle' = "shutdown"
    /\ IF newsInterval # "null"
       THEN /\ pendingTimers' = ClearTimeout(newsInterval, pendingTimers)
            /\ newsInterval' = "null"
            /\ isRunning' = FALSE
       ELSE UNCHANGED <<pendingTimers, newsInterval, isRunning>>
    /\ UNCHANGED <<seenItems, seenFile, currentInterval, lastCycle, enabled, cyc, ext, outsideSched>>

\* A call of NewsBot.stopNewsLoop on the started bot.
StopNewsLoop ==
    /\ lifecycle = "started"
    /\ newsInterval # "null"
    /\ pendingTimers' = ClearTimeout(newsInterval, pendingTimers)
    /\ newsInterval' = "null"
    /\ isRunning' = FALSE
    /\ UNCHANGED <<seenItems, seenFile, lifecycle, currentInterval, lastCycle, enabled, cyc,
                   ext, outsideSched>>

\* A call of NewsBot.startNewsLoop on the started bot: with a handle in
\* newsInterval it returns at once, otherwise it arms a timer.
StartNewsLoop ==
    /\ lifecycle = "started"
    /\ newsInterval = "null"
    /\ pendingTimers < MaxTimers
    /\ newsInterval' = "set"
    /\ pendingTimers' = pendingTimers + 1
    /\ isRunning' = TRUE
    /\ UNCHANGED <<seenItems, seenFile, lifecycle, currentInterval, lastCycle, enabled, cyc,
                   ext, outsideSched>>

\* The methods of class DataManager.
DataManagerMethods ==
    {"ensureDataDirectory", "setRetentionPeriod", "getRetentionPeriod", "loadAllData",
     "loadSeenItems", "saveSeenItems", "cleanupOldItems", "hasSeenItem", "markItemAsSeen",
     "getSeenItemsCount", "loadCSVData", "saveCSVData", "ensureFile"}

\* this.dataManager.<method>(): a call of something that is not a function throws.
CallDataManager(method) == IF method \in DataManagerMethods THEN "returned" ELSE Thrown

\* The rest of NewsBot.shutdown, after the Discord client is destroyed:
\* this.dataManager.shutdown(), then emit('shutdown').
ShutdownEnds ==
    /\ lifecycle = "shutdown"
    /\ lifecycle' = IF CallDataManager("shutdown") = Thrown THEN "threw" ELSE "down"
    /\ UNCHANGED <<seenItems, seenFile, isRunning, newsInterval, pendingTimers,
                   currentInterval, lastCycle, enabled, cyc, ext, outsideSched>>

\* NewsBot constructed, endpoints registered, not started.
SchedInit ==
    /\ lifecycle = "initialized"
    /\ isRunning = FALSE
    /\ newsInterval = "null"
    /\ pendingTimers = 0
    /\ baseIntervalMinutes \in BaseIntervals
    /\ currentInterval = baseIntervalMinutes * 60
    /\ lastCycle = NoCycle
    /\ enabled = [e \in Sources |-> TRUE]
    /\ cyc = [k \in CycleSlots |-> IdleCycle]
    /\ ext = [w \in EntryPoints |-> IdleEntry]

\* The scheduler at rest with the interval the deployment configures, for the
\* specifications that do not follow it.
SchedIdle ==
    /\ SchedInit
    /\ baseIntervalMinutes = 59

\* The seen-item store of a process that loaded nothing and registered its endpoints.
StoreRunning ==
    /\ now = 0
    /\ phase = "running"
    /\ seenItems = [s \in Sources |-> EmptyMap]
    /\ retentionPeriods = [s \in Sources |-> EndpointRetention(s)]
    /\ seenFile = [s \in Sources |-> EmptyMap]
    /\ marked = [s \in Sources |-> EmptyMap]
    /\ loadRead = [s \in Sources |-> TRUE]
    /\ storeWrites = 0

\* ------------------------------------------------------------------------
\* Endpoint weights and selectRandomEndpoint
\* ------------------------------------------------------------------------

\* The endpoints in the order Application registers them.
Registered == <<"reddit", "congress", "asteroid">>
RegisteredSet == {Registered[k] : k \in 1..Len(Registered)}

\* The largest weight given to an endpoint.
MaxWeight == 2
\* Weights as they arrive from ENDPOINT_WEIGHTS or the control panel.
WeightInputs == -1..MaxWeight
NotConfigured == -2
NoPick == [result |-> "none"]

\* BaseEndpoint.setWeight: "this.weight = Math.max(0, weight)".
SetWeightTo(w) == IF w > 0 THEN w ELSE 0

\* registerEndpoint: "endpoint.setWeight(endpointConfig.weights[name] || 1)".
RegisteredWeight(configured) ==
    SetWeightTo(IF configured = NotConfigured \/ configured = 0 THEN 1 ELSE configured)

\* getEnabledEndpoints: the enabled endpoints in the order of the endpoints map.
RECURSIVE EnabledInOrder(_, _)
EnabledInOrder(order, en) ==
    IF order = <<>> THEN <<>>
    ELSE IF Head(order) \in en THEN <<Head(order)>> \o EnabledInOrder(Tail(order), en)
    ELSE EnabledInOrder(Tail(order), en)

RECURSIVE SumWeights(_, _)
SumWeights(eps, w) == IF eps = <<>> THEN 0 ELSE w[Head(eps)] + SumWeights(Tail(eps), w)

\* The draws Math.random() * totalWeight, in halves: 0 <= r < totalWeight.
Draws(eps, w) == {r2 \in 0..(2 * MaxWeight * Len(Registered)) : r2 < 2 * SumWeights(eps, w)} \cup {0}

\* The loop of selectRandomEndpoint from the k-th enabled endpoint on, random in
\* halves; after the loop, the fallback to the first enabled endpoint.
RECURSIVE WalkWeights(_, _, _, _)
WalkWeights(eps, w, k, random2) ==
    IF k > Len(eps) THEN eps[1]
    ELSE LET rest == random2 - 2 * w[eps[k]]
         IN IF rest <= 0 THEN eps[k] ELSE WalkWeights(eps, w, k + 1, rest)

SelectRandomEndpoint(eps, w, r2) ==
    IF Len(eps) = 0 THEN "null" ELSE WalkWeights(eps, w, 1, r2)

\* POST /api/endpoints/:name/weight.
SetWeight(ep, w) ==
    /\ weight[ep] # SetWeightTo(w)
    /\ weight' = [weight EXCEPT ![ep] = SetWeightTo(w)]
    /\ UNCHANGED <<picked, outsidePick>>

\* selectRandomEndpoint is called with some endpoints enabled and some draw.
SelectRandomEndpointCall(en, r2) ==
    /\ r2 \in Draws(EnabledInOrder(Registered, en), weight)
    /\ picked' = [result |-> SelectRandomEndpoint(EnabledInOrder(Registered, en), weight, r2),
                  enabled |-> en, r2 |-> r2, weight |-> weight]
    /\ UNCHANGED <<weight, outsidePick>>

\* Every endpoint registered with no weight configured.
PickIdle ==
    /\ weight = [e \in RegisteredSet |-> RegisteredWeight(NotConfigured)]
    /\ picked = NoPick

\* Every endpoint registered with some configured weight.
PickInit ==
    /\ weight \in {[e \in RegisteredSet |-> RegisteredWeight(cfg[e])] :
                      cfg \in [RegisteredSet -> WeightInputs \cup {NotConfigured}]}
    /\ picked = NoPick

\* ------------------------------------------------------------------------
\* The language heuristic (TheNewsAPIEndpoint / MarketauxEndpoint.isEnglishContent).
\* A text is the sequence of its characters.

MaxWords == 2

\* The words the titles and descriptions are made of.
Vocabulary ==
    {<<"T", "h", "e">>, <<"f", "o", "r">>, <<"d", "e", "r">>,
     <<"z", "e", "i", "t", "u", "n", "g">>}

\* englishIndicators.
EnglishIndicators ==
    {<<"t", "h", "e">>, <<"a", "n", "d">>, <<"f", "o", "r">>, <<"a", "r", "e">>,
     <<"w", "i", "t", "h">>, <<"t", "h", "a", "t">>, <<"t", "h", "i", "s">>,
     <<"f", "r", "o", "m">>, <<"t", "h", "e", "y">>, <<"h", "a", "v", "e">>,
     <<"b", "e", "e", "n">>, <<"t", "h", "e", "i", "r">>, <<"s", "a", "i", "d">>,
     <<"e", "a", "c", "h">>, <<"w", "h", "i", "c", "h">>, <<"w", "h", "a", "t">>,
     <<"w", "i", "l", "l">>, <<"t", "h", "e", "r", "e">>, <<"c", "o", "u", "l", "d">>}

\* article.language: absent, English, another language.
LanguageTags == {"", "en", "de"}

\* A title or description: words joined by single spaces.
RECURSIVE JoinWords(_)
JoinWords(words) ==
    IF words = <<>> THEN <<>>
    ELSE IF Len(words) = 1 THEN Head(words)
    ELSE Head(words) \o <<" ">> \o JoinWords(Tail(words))

WordLists == SeqsUpTo(Vocabulary, MaxWords)

Articles ==
    {[language |-> l, titleWords |-> t, descriptionWords |-> d] :
        l \in LanguageTags, t \in WordLists, d \in WordLists}

\* String.toLowerCase.
LowerChar(ch) == IF ch = "T" THEN "t" ELSE ch
LowerText(text) == [k \in 1..Len(text) |-> LowerChar(text[k])]

\* String.trim.
RECURSIVE TrimLeft(_)
TrimLeft(text) ==
    IF text # <<>> /\ Head(text) = " " THEN TrimLeft(Tail(text)) ELSE text

RECURSIVE TrimRight(_)
TrimRight(text) ==
    IF text # <<>> /\ text[Len(text)] = " "
    THEN TrimRight(SubSeq(text, 1, Len(text) - 1))
    ELSE text

Trim(text) == TrimRight(TrimLeft(text))

\* String.startsWith and String.includes.
StartsWith(text, part) ==
    Len(part) <= Len(text) /\ SubSeq(text, 1, Len(part)) = part

Includes(text, part) ==
    \E k \in 1..(Len(text) - Len(part) + 1) : SubSeq(text, k, k + Len(part) - 1) = part

\* `${article.title || ''} ${article.description || ''}`.toLowerCase().
TextToCheck(article) ==
    LowerText(JoinWords(article.titleWords) \o <<" ">> \o JoinWords(article.descriptionWords))

\* textToCheck.includes(` ${word} `) || textToCheck.startsWith(`${word} `).
CountsAsIndicator(text, word) ==
    \/ Includes(text, <<" ">> \o word \o <<" ">>)
    \/ StartsWith(text, word \o <<" ">>)

\* englishWordCount.
EnglishWordCount(text) ==
    Cardinality({word \in EnglishIndicators : CountsAsIndicator(text, word)})

\* isEnglishContent on an article given by its words.
IsEnglishArticle(article) ==
    IF article.language # "" /\ article.language # "en" THEN FALSE
    ELSE IF Len(Trim(TextToCheck(article))) < 10 THEN TRUE
    ELSE EnglishWordCount(TextToCheck(article)) >= 2

NoLanguageCheck ==
    [article |-> [language |-> "none", titleWords |-> <<>>, descriptionWords |-> <<>>],
     result |-> FALSE]

\* One call of isEnglishContent; the function keeps no state, so one call on
\* each article is followed.
IsEnglishContentCall(article) ==
    /\ languageCheck = NoLanguageCheck
    /\ languageCheck' = [article |-> article, result |-> IsEnglishArticle(article)]
    /\ UNCHANGED outsideLang

LangIdle == languageCheck = NoLanguageCheck

\* ------------------------------------------------------------------------
\* Delivery (NewsBot.sendNews, DiscordService.sendToChannels).

MaxChannels == 4

\* What a target channel does with the message: channel.send resolves, it
\* rejects, or the channel is not in the client's cache.
ChannelOutcomes == {"accepts", "rejects", "unknown"}

ChannelLists == SeqsUpTo(ChannelOutcomes, MaxChannels)

\* successCount after the loop over the channels.
RECURSIVE SuccessCount(_)
SuccessCount(channels) ==
    IF channels = <<>> THEN 0
    ELSE (IF Head(channels) = "accepts" THEN 1 ELSE 0) + SuccessCount(Tail(channels))

\* A sendToChannels that wants every channel to accept.
AllMustAccept(isReady, channels) ==
    isReady /\ channels # <<>> /\ SuccessCount(channels) = Len(channels)

\* DiscordService.sendToChannels.
SendToChannels(isReady, channels) ==
    IF ~isReady THEN FALSE
    ELSE IF Len(channels) = 0 THEN FALSE
    ELSE SuccessCount(channels) > 0

NoDelivery == [isReady |-> FALSE, channels |-> <<"none">>, success |-> FALSE,
               newsSent |-> FALSE]

\* One call of sendNews; the transport keeps no state between calls, so one call
\* on each input is followed.
SendNews(isReady, channels) ==
    /\ delivery = NoDelivery
    /\ LET success == SendToChannels(isReady, channels)
       IN delivery' = [isReady |-> isReady, channels |-> channels, success |-> success,
                       newsSent |-> success]
    /\ UNCHANGED outsideSend

SendIdle == delivery = NoDelivery

\* ------------------------------------------------------------------------
\* MarketauxEndpoint: daily request quota
\* ------------------------------------------------------------------------

\* this.dailyRequestLimit (100), scaled down.
DailyRequestLimit == 2
\* A behaviour of SpecMx makes at most this many marketaux fetchUpdate calls.
MaxMxCalls == 3
\* The clock of SpecMx advances up to this many days.
MxMaxDays == 2

MxCallers == {"cycle", "manual"}
NoDate == -1
NoCount == [date |-> NoDate]
MxDays == 0..MxMaxDays

\* new Date().toISOString().split('T')[0], as a day number.
DateOf(t) == t \div (24 * 60 * 60)

\* What marketaux_request_count.csv can hold at startup: nothing, or a count for
\* today or for yesterday, below, at or above the limit.
CountFiles ==
    {NoCount} \cup
    {[date |-> d, count |-> n] : d \in {0 - 1, 0}, n \in 0..(DailyRequestLimit + 1)}

\* loadRequestCount: today's persisted count, else 0.
LoadRequestCount(file, today) ==
    IF file # NoCount /\ file.date = today THEN file.count ELSE 0

\* A check that never resets the counter.
CountKept(count, lastDate, today) == count

\* canMakeRequest's reset: "if (today !== this.lastRequestDate) requestsToday = 0".
CountAfterCheck(count, lastDate, today) == IF today # lastDate THEN 0 ELSE count

\* A quota check that lets every request through.
AlwaysCanMakeRequest(count, lastDate, today) == TRUE

\* canMakeRequest's answer.
CanMakeRequest(count, lastDate, today) ==
    CountAfterCheck(count, lastDate, today) < DailyRequestLimit

\* A counter that is not incremented.
NotIncremented(count) == count

\* incrementRequestCount: this.requestsToday++.
IncrementRequestCount(count) == count + 1

\* saveRequestCount: the file holds today's count alone (the write succeeds here).
SaveRequestCount(file, count, today) == [date |-> today, count |-> count]

\* What the API can answer with: an article, and one that is not in English.
MxArticles == {a \in NewsApiArticles : a.id \in {"a1", "c3"}}

MxBatches ==
    {b \in SeqsUpTo(MxArticles, MaxBatch) : \A j, k \in 1..Len(b) : j # k => b[j] # b[k]}

\* fetchUpdate's loop over the articles (vector embedding switched off in the
\* configuration): the first complete, recent, unseen, English article is marked
\* seen and returned; a non-English one is marked seen and skipped.
RECURSIVE MxLoop(_, _, _, _)
MxLoop(items, batch, k, t) ==
    IF k > Len(batch) THEN [items |-> items, result |-> NoItem]
    ELSE LET article == batch[k]
         IN IF ~article.complete THEN MxLoop(items, batch, k + 1, t)
            ELSE IF IsOld(article, t) THEN MxLoop(items, batch, k + 1, t)
            ELSE IF HasSeenItem(items, "marketaux", article.id)
            THEN MxLoop(items, batch, k + 1, t)
            ELSE IF ~IsEnglishContent(article)
            THEN MxLoop(MarkItemAsSeen(items, "marketaux", article.id, t), batch, k + 1, t)
            ELSE [items |-> MarkItemAsSeen(items, "marketaux", article.id, t),
                  result |-> article]

\* The constructor: BaseEndpoint sets isEnabled = true, and an endpoint without its
\* API token disables itself.
ConstructedEnabled(token) == token

\* registerEndpoint: "endpoint.setEnabled(endpointConfig.enabled.includes(name))".
RegisteredEnabled(wasEnabled, inEnabledList) == inEnabledList

\* NewsBot.registerEndpoint(marketaux), with the endpoint named in ENABLED_ENDPOINTS
\* or not.
MxRegister(inEnabledList) ==
    /\ mxPhase = "constructed"
    /\ mxPhase' = "registered"
    /\ mxEnabled' = RegisteredEnabled(mxEnabled, inEnabledList)
    /\ mxLast' = "register"
    /\ UNCHANGED <<now, seenItems, seenFile, requestsToday, lastRequestDate, countFile, mxCall,
                   mxCalls, httpSent, outsideMx>>

\* MarketauxEndpoint.initialize, called by NewsBot.initialize: without a token it
\* returns at once, otherwise loadRequestCount.
MxInitialize ==
    /\ mxPhase = "registered"
    /\ mxPhase' = "initialized"
    /\ IF mxToken
       THEN /\ requestsToday' = LoadRequestCount(countFile, DateOf(now))
            /\ lastRequestDate' = DateOf(now)
       ELSE UNCHANGED <<requestsToday, lastRequestDate>>
    /\ mxLast' = "initialize"
    /\ UNCHANGED <<now, seenItems, seenFile, mxEnabled, countFile, mxCall, mxCalls, httpSent,
                   outsideMx>>

\* fetchUpdate is called: disabled or over the quota it returns null, otherwise
\* the request is sent.
MxFetchUpdate(who) ==
    /\ mxPhase = "initialized"
    /\ mxCall[who] = "idle"
    /\ mxCalls < MaxMxCalls
    /\ mxCalls' = mxCalls + 1
    /\ IF ~mxEnabled \/ ~mxToken
       THEN /\ mxLast' = "disabled"
            /\ UNCHANGED <<requestsToday, lastRequestDate, mxCall, httpSent>>
       ELSE /\ requestsToday' = CountAfterCheck(requestsToday, lastRequestDate, DateOf(now))
            /\ lastRequestDate' = DateOf(now)
            /\ IF CanMakeRequest(requestsToday, lastRequestDate, DateOf(now))
               THEN /\ mxCall' = [mxCall EXCEPT ![who] = "http"]
                    /\ httpSent' = [httpSent EXCEPT ![DateOf(now)] = @ + 1]
                    /\ mxLast' = "request"
               ELSE /\ mxLast' = "skipped"
                    /\ UNCHANGED <<mxCall, httpSent>>
    /\ UNCHANGED <<now, seenItems, seenFile, mxPhase, mxEnabled, countFile, outsideMx>>

\* axios.get rejects (timeout, network error, HTTP 402/403/429, ...): logged,
\* null returned.
MxHttpFails(who) ==
    /\ mxCall[who] = "http"
    /\ mxCall' = [mxCall EXCEPT ![who] = "idle"]
    /\ mxLast' = "failed"
    /\ UNCHANGED <<now, seenItems, seenFile, mxPhase, mxEnabled, requestsToday,
                   lastRequestDate, countFile, mxCalls, httpSent, outsideMx>>

\* axios.get resolves: incrementRequestCount, then the loop over the articles.
MxHttpResponds(who) ==
    /\ mxCall[who] = "http"
    /\ \E batch \in MxBatches :
          LET lp == MxLoop(seenItems, batch, 1, now)
          IN /\ requestsToday' = IncrementRequestCount(requestsToday)
             /\ countFile' = SaveRequestCount(countFile, requestsToday', DateOf(now))
             /\ seenItems' = lp.items
             /\ seenFile' = IF lp.items # seenItems THEN lp.items ELSE seenFile
    /\ mxCall' = [mxCall EXCEPT ![who] = "idle"]
    /\ mxLast' = "responded"
    /\ UNCHANGED <<now, mxPhase, mxEnabled, lastRequestDate, mxCalls, httpSent, outsideMx>>

\* getRequestStats / getRemainingRequests (the control panel's status): another
\* quota check.
MxGetRequestStats ==
    /\ mxPhase = "initialized"
    /\ requestsToday' = CountAfterCheck(requestsToday, lastRequestDate, DateOf(now))
    /\ lastRequestDate' = DateOf(now)
    /\ mxLast' = "stats"
    /\ UNCHANGED <<now, seenItems, seenFile, mxPhase, mxEnabled, countFile, mxCall, mxCalls,
                   httpSent, outsideMx>>

\* Midnight (UTC) passes.
MxNextDay ==
    /\ DateOf(now) < MxMaxDays
    /\ now' = now + 24 * 60 * 60
    /\ mxLast' = "midnight"
    /\ UNCHANGED <<seenItems, seenFile, mxPhase, mxEnabled, requestsToday, lastRequestDate,
                   countFile, mxCall, mxCalls, httpSent, outsideMx>>

\* MarketauxEndpoint constructed in a process whose store is loaded.
MxInit ==
    /\ now = 0
    /\ phase = "running"
    /\ seenItems = [s \in {"marketaux"} |-> [i \in FetchItemIds |-> Absent]]
    /\ seenFile = seenItems
    /\ retentionPeriods = [s \in {"marketaux"} |-> EndpointRetention(s)]
    /\ marked = seenItems
    /\ loadRead = [s \in {"marketaux"} |-> TRUE]
    /\ storeWrites = 0
    /\ mxPhase = "constructed"
    /\ mxToken \in BOOLEAN
    /\ mxEnabled = ConstructedEnabled(mxToken)
    /\ requestsToday = 0
    /\ lastRequestDate = NoDate
    /\ countFile \in CountFiles
    /\ mxCall = [who \in MxCallers |-> "idle"]
    /\ mxCalls = 0
    /\ httpSent = [d \in MxDays |-> 0]
    /\ mxLast = "none"

\* The marketaux endpoint at rest, for the specifications that do not follow it.
MxIdle ==
    /\ mxPhase = "constructed"
    /\ mxEnabled = TRUE
    /\ mxToken = TRUE
    /\ requestsToday = 0
    /\ lastRequestDate = NoDate
    /\ countFile = NoCount
    /\ mxCall = [who \in MxCallers |-> "idle"]
    /\ mxCalls = 0
    /\ httpSent = [d \in MxDays |-> 0]
    /\ mxLast = "none"

\* ------------------------------------------------------------------------
\* Specifications
\* ------------------------------------------------------------------------

StoreNext ==
    \/ DataManagerNew
    \/ RegisterEndpoints
    \/ \E s \in Sources, i \in ItemIds : StoreMark(s, i)
    \/ Tick
    \/ ProcessExit

\* The state after construction, with the parts a specification does not follow
\* at rest.
RestInit ==
    /\ StoreInit
    /\ SimIdle
    /\ FetchIdle
    /\ SchedIdle
    /\ MxIdle
    /\ PickIdle
    /\ LangIdle
    /\ SendIdle

SpecStore == RestInit /\ [][StoreNext]_vars

SimNext ==
    \/ \E x \in ThresholdInputs : SimUpdateThreshold(x)
    \/ \E h \in Headlines, ok \in BOOLEAN : SimAddHeadline(h, ok)
    \/ \E h \in Headlines, ok \in BOOLEAN : SimCheck(h, ok)
    \/ SimTick

SpecSim == RestInit /\ [][SimNext]_vars

FetchNext ==
    \/ \E who \in DOMAIN call : FetchUpdateStart(who)
    \/ \E who \in DOMAIN call : HttpError(who)
    \/ \E who \in DOMAIN call : HttpResponse(who)
    \/ \E who \in DOMAIN call : CheckSimilarityReturns(who)
    \/ \E who \in DOMAIN call : AddHeadlineReturns(who)
    \/ \E who \in DOMAIN call : FetchUpdateReturns(who)
    \/ FetchTick

\* An endpoint of a running process whose embedding provider, where configured,
\* initialized; the news loop is not followed.
FetchSpecInit ==
    /\ FetchInit
    /\ feed = Universe(endpoint)
    /\ diskOk = TRUE
    /\ embeddingInit # "failed"
    /\ SchedIdle
    /\ MxIdle
    /\ PickIdle
    /\ LangIdle
    /\ SendIdle

SpecFetch == FetchSpecInit /\ [][FetchNext]_vars

\* The fetch pipeline while every write to the data directory fails.
DiskSpecInit ==
    /\ FetchInit
    /\ feed = Universe(endpoint)
    /\ diskOk = FALSE
    /\ embeddingInit # "failed"
    /\ SchedIdle
    /\ MxIdle
    /\ PickIdle
    /\ LangIdle
    /\ SendIdle

SpecDisk == DiskSpecInit /\ [][FetchNext]_vars

\* The thenewsapi endpoint with its similarity index in use, the scheduled cycle
\* and the control panel's manual fetch calling fetchUpdate with no regard to
\* each other.
OverlapSpecInit ==
    /\ now = 0
    /\ phase = "running"
    /\ endpoint = "thenewsapi"
    /\ feed = {p \in Universe(endpoint) : p.id \in {"a1", "c3"}}
    /\ diskOk = TRUE
    /\ seenItems = [s \in {endpoint} |-> [i \in FetchItemIds |-> Absent]]
    /\ seenFile = seenItems
    /\ retentionPeriods = [s \in {endpoint} |-> EndpointRetention(s)]
    /\ marked = [s \in {endpoint} |-> [i \in FetchItemIds |-> Absent]]
    /\ loadRead = [s \in {endpoint} |-> TRUE]
    /\ storeWrites = 0
    /\ SimIdle
    /\ embeddingInit = "ok"
    /\ vectorEmbeddingEnabled = TRUE
    /\ isEnabled = TRUE
    /\ enableResult = "none"
    /\ embedCache = {}
    /\ call = [who \in BothCallers |-> IdleCall]
    /\ fetches = 0
    /\ returned = {}
    /\ markLog = <<>>
    /\ SchedIdle
    /\ MxIdle
    /\ PickIdle
    /\ LangIdle
    /\ SendIdle

OverlapNext ==
    \/ \E who \in DOMAIN call : FetchUpdateBegins(who)
    \/ \E who \in DOMAIN call : HttpError(who)
    \/ \E who \in DOMAIN call : HttpResponse(who)
    \/ \E who \in DOMAIN call : CheckSimilarityReturns(who)
    \/ \E who \in DOMAIN call : AddHeadlineReturns(who)
    \/ \E who \in DOMAIN call : FetchUpdateReturns(who)
    \/ FetchTick

SpecOverlap == OverlapSpecInit /\ [][OverlapNext]_vars

\* The fetch pipeline on a source one of whose items carries no readable date.
UndatedSpecInit ==
    /\ FetchInit
    /\ feed = UndatedFeed(endpoint)
    /\ diskOk = TRUE
    /\ embeddingInit # "failed"
    /\ SchedIdle
    /\ MxIdle
    /\ PickIdle
    /\ LangIdle
    /\ SendIdle

SpecUndated == UndatedSpecInit /\ [][FetchNext]_vars

\* The fetch pipeline with the control panel switching the endpoint on and off.
\* reddit is followed without its similarity index, whose use SpecFetch follows.
EnabledNext ==
    \/ \E who \in DOMAIN call : FetchUpdateStart(who)
    \/ \E who \in DOMAIN call : HttpError(who)
    \/ \E who \in DOMAIN call : HttpResponse(who)
    \/ \E who \in DOMAIN call : CheckSimilarityReturns(who)
    \/ \E who \in DOMAIN call : AddHeadlineReturns(who)
    \/ \E who \in DOMAIN call : FetchUpdateReturns(who)
    \/ \E flag \in BOOLEAN : EndpointSetEnabled(flag)
    \/ FetchTick

EnabledSpecInit ==
    /\ FetchInit
    /\ feed = Universe(endpoint)
    /\ diskOk = TRUE
    /\ endpoint = "reddit" => embeddingInit # "ok"
    /\ SchedIdle
    /\ MxIdle
    /\ PickIdle
    /\ LangIdle
    /\ SendIdle

SpecEnabled == EnabledSpecInit /\ [][EnabledNext]_vars

\* The reddit endpoint after its embedding provider failed in initialize(), with
\* the control panel asking for vector embedding again.
EmbeddingNext ==
    \/ \E who \in DOMAIN call : FetchUpdateStart(who)
    \/ \E who \in DOMAIN call : HttpError(who)
    \/ \E who \in DOMAIN call : HttpResponse(who)
    \/ \E who \in DOMAIN call : CheckSimilarityReturns(who)
    \/ \E who \in DOMAIN call : AddHeadlineReturns(who)
    \/ \E who \in DOMAIN call : FetchUpdateReturns(who)
    \/ \E providerOk \in BOOLEAN : EnableVectorEmbedding(providerOk)
    \/ FetchTick

EmbeddingSpecInit ==
    /\ FetchInit
    /\ feed = Universe(endpoint)
    /\ diskOk = TRUE
    /\ endpoint = "reddit"
    /\ embeddingInit = "failed"
    /\ SchedIdle
    /\ MxIdle
    /\ PickIdle
    /\ LangIdle
    /\ SendIdle

SpecEmbedding == EmbeddingSpecInit /\ [][EmbeddingNext]_vars

\* The application from Application.start on.
Init ==
    /\ StoreRunning
    /\ SimIdle
    /\ FetchIdle
    /\ SchedInit
    /\ MxIdle
    /\ PickIdle
    /\ LangIdle
    /\ SendIdle

Next ==
    \/ Start
    \/ TimerFires
    \/ \E k \in CycleSlots : CycleFetchReturns(k)
    \/ \E k \in CycleSlots : CycleSendReturns(k)
    \/ \E w \in EntryPoints, ep \in Sources : EntryFetchStarts(w, ep)
    \/ \E w \in EntryPoints : EntryFetchReturns(w)
    \/ \E w \in EntryPoints : EntrySendReturns(w)
    \/ \E ep \in Sources, value \in BOOLEAN : SetEnabled(ep, value)
    \/ Shutdown
    \/ ShutdownEnds

Spec == Init /\ [][Next]_vars

\* The event loop runs a timer that is due, and an awaited request (axios with its
\* timeout, the Discord send) settles.
Fairness ==
    /\ WF_vars(TimerFires)
    /\ \A k \in CycleSlots : WF_vars(CycleFetchReturns(k)) /\ WF_vars(CycleSendReturns(k))

\* The news loop by itself. The requests of the control panel and of the chat
\* command change their own records and the seen store only, and no guard of the
\* loop depends on either.
LoopNext ==
    \/ Start
    \/ TimerFires
    \/ \E k \in CycleSlots : CycleFetchReturns(k)
    \/ \E k \in CycleSlots : CycleSendReturns(k)
    \/ \E ep \in Sources, value \in BOOLEAN : SetEnabled(ep, value)
    \/ Shutdown
    \/ ShutdownEnds

SpecLive == Init /\ [][LoopNext]_vars /\ Fairness

\* The marketaux endpoint, called by the news loop and by the control panel.
MxSpecInit ==
    /\ MxInit
    /\ SimIdle
    /\ FetchIdle
    /\ SchedIdle
    /\ PickIdle
    /\ LangIdle
    /\ SendIdle

MxNext ==
    \/ \E inEnabledList \in BOOLEAN : MxRegister(inEnabledList)
    \/ MxInitialize
    \/ \E who \in MxCallers : MxFetchUpdate(who)
    \/ \E who \in MxCallers : MxHttpFails(who)
    \/ \E who \in MxCallers : MxHttpResponds(who)
    \/ MxGetRequestStats
    \/ MxNextDay

SpecMx == MxSpecInit /\ [][MxNext]_vars

\* selectRandomEndpoint over every registered weight, enabled set and draw.
PickSpecInit ==
    /\ StoreRunning
    /\ SimIdle
    /\ FetchIdle
    /\ SchedIdle
    /\ MxIdle
    /\ PickInit
    /\ LangIdle
    /\ SendIdle

PickNext ==
    \/ \E ep \in RegisteredSet, w \in WeightInputs : SetWeight(ep, w)
    \/ \E en \in SUBSET RegisteredSet, r2 \in 0..(2 * MaxWeight * Len(Registered)) :
          SelectRandomEndpointCall(en, r2)

SpecPick == PickSpecInit /\ [][PickNext]_vars

\* sendNews on every readiness of the transport and list of target channels.
SendSpecInit ==
    /\ StoreRunning
    /\ SimIdle
    /\ FetchIdle
    /\ SchedIdle
    /\ MxIdle
    /\ PickIdle
    /\ LangIdle
    /\ SendIdle

SendNext == \E isReady \in BOOLEAN, channels \in ChannelLists : SendNews(isReady, channels)

SpecSend == SendSpecInit /\ [][SendNext]_vars

\* isEnglishContent applied to articles.
LangSpecInit ==
    /\ StoreRunning
    /\ SimIdle
    /\ FetchIdle
    /\ SchedIdle
    /\ MxIdle
    /\ PickIdle
    /\ LangIdle
    /\ SendIdle

LangNext == \E article \in Articles : IsEnglishContentCall(article)

SpecLang == LangSpecInit /\ [][LangNext]_vars

\* The news loop while the control panel changes the weights of its endpoints.
WeightedNext ==
    \/ Start
    \/ TimerFires
    \/ \E k \in CycleSlots : CycleFetchReturns(k)
    \/ \E k \in CycleSlots : CycleSendReturns(k)
    \/ \E ep \in Sources, value \in BOOLEAN : SetEnabled(ep, value)
    \/ \E ep \in Sources, w \in WeightInputs : SetWeight(ep, w)
    \/ Shutdown
    \/ ShutdownEnds

SpecWeighted == Init /\ [][WeightedNext]_vars

\* The news loop with startNewsLoop and stopNewsLoop called at any time.
RestartNext ==
    \/ Start
    \/ TimerFires
    \/ \E k \in CycleSlots : CycleFetchReturns(k)
    \/ \E k \in CycleSlots : CycleSendReturns(k)
    \/ StopNewsLoop
    \/ StartNewsLoop

SpecRestart == Init /\ [][RestartNext]_vars

\* ------------------------------------------------------------------------
\* Claims about the seen-item store
\* ------------------------------------------------------------------------

\* C2: once markItemAsSeen(s, i) has succeeded, hasSeenItem(s, i) is true exactly
\* while the time since the call is within the source's retention period, and false
\* once the period has elapsed.
C2_SeenExactlyWithinRetention ==
    \A s \in Sources, i \in ItemIds :
        (phase = "running" /\ marked[s][i] # Absent) =>
            (HasSeenItem(seenItems, s, i) <=> now - marked[s][i] <= EndpointRetention(s))

\* C3: every eviction (the one run when the store is loaded included) removes an
\* entry iff its age exceeds the retention period its own source configures; an
\* entry of a 7-day source younger than 7 days is never evicted.
C3_EvictionUsesSourcePeriod ==
    [][\A s \in Sources, i \in ItemIds :
          (phase = "down" /\ phase' = "constructed" /\ loadRead'[s]
              /\ seenFile[s][i] # Absent) =>
             ((seenItems'[s][i] = Absent) <=>
                 (now - seenFile[s][i] > EndpointRetention(s)))]_vars

\* ------------------------------------------------------------------------
\* Claims about the similarity index
\* ------------------------------------------------------------------------

\* The scores of the stored headlines against the checked text.
StoredScores(q) ==
    {CosineSimilarity(Embed(q), recentHeadlines[k].embedding) :
        k \in 1..Len(recentHeadlines)}

C1_ReturnedAtMostOnce ==
    [][\A who \in DOMAIN call :
          (call[who].pc # "done" /\ call'[who].pc = "done" /\ call'[who].result # NoItem) =>
              ~(call'[who].result.id \in returned
                /\ seenItems[endpoint][call'[who].result.id] # Absent)]_vars

\* C1 happens: a later call polled an item again that an earlier call returned, the
\* item still inside the lookback and matching the feed's author, and did not
\* return it.
C1_Witness ==
    \E who \in DOMAIN call :
        /\ call[who].pc = "done"
        /\ fetches >= 2
        /\ \E k \in 1..Len(call[who].batch) :
              LET post == call[who].batch[k]
              IN /\ post.id \in returned
                 /\ ~IsOld(post, call[who].at)
                 /\ ~AuthorMismatch(post, Head(call[who].order))
                 /\ (call[who].result = NoItem \/ call[who].result.id # post.id)

InIndex(title) == \E k \in 1..Len(recentHeadlines) : recentHeadlines[k].headline = title

C9_BannedMarkedOnceNeverReturned ==
    endpoint = "reddit" =>
        /\ \A who \in DOMAIN call :
              (call[who].pc = "done" /\ call[who].result # NoItem) =>
                  ~IsUrlBanned(call[who].result.url)
        /\ \A k \in 1..Len(markLog) : ~(markLog[k].denied /\ markLog[k].seenBefore)

\* ------------------------------------------------------------------------
\* Claims about the news loop
\* ------------------------------------------------------------------------

\* C4: scheduled cycles never overlap: at most one timer callback is in flight,
\* and a timer for the next cycle is armed only when none is.
C4_CyclesNeverOverlap ==
    /\ Cardinality(InFlight) <= 1
    /\ pendingTimers <= 1
    /\ pendingTimers > 0 => InFlight = {}

\* C4 happens: a cycle has fetched and delivered an item, it is over, and the
\* timer of the next cycle is armed.
C4_Witness ==
    /\ pendingTimers = 1
    /\ InFlight = {}
    /\ \E k \in CycleSlots : cyc[k].sent = 1

\* C5: no other entry point (control-panel manual fetch, chat command !congress)
\* has a fetchUpdate call of its own under way while a scheduled cycle is in flight.
C5_OnlyTheCycleFetches ==
    \A w \in EntryPoints : ext[w].pc = "fetching" => InFlight = {}

\* C6: in every scheduled cycle at most one endpoint yields an item to fetchNews
\* and sendNews is called at most once.
C6_AtMostOneItemPerCycle ==
    \A k \in CycleSlots : cyc[k].yielded <= 1 /\ cyc[k].sent <= 1

\* C6 happens: a cycle got an item from an endpoint while another enabled endpoint
\* was still untried, and is delivering that one item.
C6_Witness ==
    \E k \in CycleSlots :
        /\ cyc[k].pc = "sending"
        /\ Len(cyc[k].order) > 1
        /\ enabled[cyc[k].order[2]]
        /\ cyc[k].yielded = 1 /\ cyc[k].sent = 1

\* ------------------------------------------------------------------------
\* Claims about pruning and embedding failures
\* ------------------------------------------------------------------------

Records(entries) == {entries[k] : k \in 1..Len(entries)}

\* C11: after every call of pruneOldHeadlines the index holds at most
\* maxHistorySize records, none older than retentionHours, none that was not there
\* before; no record is deleted but for its age or for the size bound, and the
\* records deleted for the size bound are the ones with the oldest timestamps.
C11_PruneBoundsSizeAndAge ==
    pruneCall # NoPrune =>
        LET kept == Records(recentHeadlines)
            fresh == {e \in Records(pruneCall.before) :
                         pruneCall.at - e.timestamp <= RetentionHours * 60 * 60}
        IN /\ Len(recentHeadlines) <= MaxHistorySize
           /\ \A e \in kept : pruneCall.at - e.timestamp <= RetentionHours * 60 * 60
           /\ kept \subseteq fresh
           /\ Cardinality(fresh) <= MaxHistorySize => kept = fresh
           /\ Cardinality(fresh) > MaxHistorySize => Len(recentHeadlines) = MaxHistorySize
           /\ \A gone \in fresh \ kept, e \in kept : gone.timestamp <= e.timestamp

\* C11 happens for the size bound: a prune deleted a record within the retention
\* window that was older than a record it kept.
C11_Witness ==
    /\ pruneCall # NoPrune
    /\ \E gone \in Records(pruneCall.before) \ Records(recentHeadlines),
          e \in Records(recentHeadlines) :
            /\ pruneCall.at - gone.timestamp <= RetentionHours * 60 * 60
            /\ gone.timestamp < e.timestamp

\* C12: when the embedding provider delivers no embedding for the candidate's
\* text, the near-duplicate step does not reject the candidate (it is marked seen
\* as an accepted one and goes on to addHeadline), and a candidate that went on
\* is the item the call returns.
C12_EmbeddingFailureFailsOpen ==
    [][\A who \in DOMAIN call :
          /\ (/\ call[who].pc = "check"
              /\ call'[who] # call[who]
              /\ call[who].batch[call[who].idx].title \notin embedCache')
                => /\ call'[who].pc = "add"
                   /\ call'[who].idx = call[who].idx
                   /\ \A k \in 1..Len(markLog') : ~markLog'[k].similar
          /\ (call[who].pc = "add" /\ call'[who] # call[who])
                => /\ call'[who].pc = "done"
                   /\ call'[who].result = call[who].batch[call[who].idx]]_vars

\* C12 happens: a call returned an item whose headline got no embedding while the
\* index held a headline it is a near duplicate of.
C12_Witness ==
    \E who \in DOMAIN call :
        /\ call[who].pc = "done" /\ call[who].result # NoItem /\ vectorEmbeddingEnabled
        /\ call[who].result.title \notin embedCache
        /\ \E k \in 1..Len(recentHeadlines) :
              CosineSimilarity(Embed(call[who].result.title), recentHeadlines[k].embedding)
                  >= similarityThreshold

\* ------------------------------------------------------------------------
\* Claims about the marketaux quota
\* ------------------------------------------------------------------------

\* C13: the daily ceiling is hard: requestsToday never exceeds dailyRequestLimit
\* and no more than dailyRequestLimit HTTP requests are sent on one date, whatever
\* the interleaving of the callers and whatever count was persisted.
C13_DailyCeilingIsHard ==
    /\ requestsToday <= DailyRequestLimit
    /\ \A d \in MxDays : httpSent[d] <= DailyRequestLimit

\* C14: a fetchUpdate call made with requestsToday at dailyRequestLimit and the
\* date unchanged is skipped: it sends no HTTP request and leaves requestsToday,
\* lastRequestDate, the persisted count and the seen store as they were.
C14_AtLimitNothingChanges ==
    [][(/\ mxCalls' = mxCalls + 1
        /\ mxEnabled /\ mxToken
        /\ requestsToday = DailyRequestLimit
        /\ lastRequestDate = DateOf(now))
          => /\ mxLast' = "skipped"
             /\ UNCHANGED <<requestsToday, lastRequestDate, countFile, seenItems, seenFile,
                            httpSent, mxCall>>]_vars

\* C14 happens: a call was skipped at the limit on the date of the counter.
C14_Witness ==
    /\ mxLast = "skipped"
    /\ requestsToday = DailyRequestLimit
    /\ lastRequestDate = DateOf(now)

\* C15: requestsToday goes up by exactly one when an HTTP request completes, is
\* unchanged when the request fails, and no other step of a call raises it.
C15_CountsCompletedRequestsOnly ==
    [][/\ \A who \in MxCallers :
             (mxCall[who] = "http" /\ mxCall'[who] = "idle") =>
                 IF mxLast' = "responded"
                 THEN requestsToday' = requestsToday + 1
                 ELSE requestsToday' = requestsToday
       /\ mxLast' \in {"request", "skipped", "disabled", "failed", "stats", "midnight"}
             => requestsToday' <= requestsToday]_vars

\* C15 happens: of two requests sent today one completed and one failed, and the
\* counter stands at one.
C15_Witness ==
    /\ mxLast = "failed"
    /\ lastRequestDate = DateOf(now)
    /\ httpSent[DateOf(now)] = 2
    /\ requestsToday = 1
    /\ \A who \in MxCallers : mxCall[who] = "idle"

C17_EmptyCycleIncreasesToCap ==
    lastCycle.how = "empty" =>
        /\ lastCycle.after =
              (IF lastCycle.before + IntervalIncrementSeconds <= MaxIntervalMinutes * 60
               THEN lastCycle.before + IntervalIncrementSeconds
               ELSE MaxIntervalMinutes * 60)
        /\ lastCycle.after <= MaxIntervalMinutes * 60
        /\ currentInterval <= MaxIntervalMinutes * 60

\* ---------------------------------------------------------------------------
\* C18: after a cycle that yields a candidate and delivers it, the interval equals
\* the base interval, whatever it was before, and the timer of the next cycle, if
\* the loop is running, is armed with the base interval.
\* ---------------------------------------------------------------------------
C18_DeliveryResetsToBase ==
    lastCycle.how = "delivered" =>
        /\ lastCycle.after = baseIntervalMinutes * 60
        /\ lastCycle.delay \in {-1, baseIntervalMinutes * 60 * 1000}

\* C18 happens: a delivering cycle ended while the interval had grown above the
\* base, and the next timer was armed with the base interval.
C18_Witness ==
    /\ lastCycle.how = "delivered"
    /\ lastCycle.before > baseIntervalMinutes * 60
    /\ lastCycle.delay = baseIntervalMinutes * 60 * 1000
    /\ currentInterval = baseIntervalMinutes * 60
    /\ pendingTimers > 0

\* ---------------------------------------------------------------------------
\* C19: a cycle in which the fetch or the delivery throws counts as an empty
\* cycle: afterwards the interval has been increased by the increment, capped at
\* the maximum.
\* ---------------------------------------------------------------------------
C19_ThrowingCycleCountsAsEmpty ==
    (lastCycle.how = "threw" \/ lastCycle.fetchThrew) =>
        lastCycle.after =
            (IF lastCycle.before + IntervalIncrementSeconds <= MaxIntervalMinutes * 60
             THEN lastCycle.before + IntervalIncrementSeconds
             ELSE MaxIntervalMinutes * 60)

\* ---------------------------------------------------------------------------
\* C20: while the loop is running, after every cycle, however it ended, the timer
\* of the next cycle is armed, and unless the loop is stopped a next cycle
\* eventually runs.
\* ---------------------------------------------------------------------------
C20_CycleEnded(p) ==
    /\ lastCycle.how \in {"empty", "delivered", "undelivered", "threw"}
    /\ lastCycle.parity = p
    /\ isRunning
    /\ \A k \in CycleSlots : cyc[k].pc = "idle"

C20_NextCycleRuns ==
    \A p \in {0, 1} :
        /\ [](C20_CycleEnded(p) => pendingTimers > 0 /\ lastCycle.delay > 0)
        /\ C20_CycleEnded(p) ~> (~isRunning \/ lastCycle.parity # p)

\* C20 happens: a cycle threw while the loop was running and the timer of the
\* next cycle is armed.
C20_Witness ==
    /\ isRunning
    /\ lastCycle.how = "threw"
    /\ lastCycle.delay > 0
    /\ pendingTimers > 0
    /\ \A k \in CycleSlots : cyc[k].pc = "idle"

\* ---------------------------------------------------------------------------
\* C21: in a sweep each endpoint is queried at most once, in the shuffled order,
\* until one yields an item; an endpoint that throws or returns nothing does not
\* keep the remaining enabled endpoints from being queried, and if none yields the
\* cycle concludes empty.
\* ---------------------------------------------------------------------------
PositionIn(order, e) == CHOOSE j \in 1..Len(order) : order[j] = e

\* The endpoints of the shuffle after the one queried last that are enabled.
EnabledAfterLast(c, en) ==
    {j \in 1..Len(c.shuffle) :
        /\ j > PositionIn(c.shuffle, c.queried[Len(c.queried)])
        /\ en[c.shuffle[j]]}

C21_SweepInOrder ==
    \A k \in CycleSlots : cyc[k].pc \in {"fetching", "sending"} =>
        LET c == cyc[k] IN
        /\ c.queried # <<>>
        /\ \A j \in 1..Len(c.queried) : \E m \in 1..Len(c.shuffle) : c.shuffle[m] = c.queried[j]
        /\ \A i, j \in 1..Len(c.queried) :
              i < j => PositionIn(c.shuffle, c.queried[i]) < PositionIn(c.shuffle, c.queried[j])
        /\ c.pc = "fetching" => c.yielded = 0
        /\ c.pc = "sending" => c.yielded = 1

C21_SweepGoesOn ==
    \A k \in CycleSlots : (cyc[k].pc = "fetching" /\ cyc'[k] # cyc[k]) =>
        LET left == EnabledAfterLast(cyc[k], enabled)
            first == CHOOSE j \in left : \A m \in left : j <= m
        IN \/ /\ cyc'[k].pc = "sending"
              /\ cyc'[k].item \in ItemIds
              /\ cyc'[k].queried = cyc[k].queried
           \/ /\ cyc'[k].pc = "fetching"
              /\ left # {}
              /\ cyc'[k].queried = Append(cyc[k].queried, cyc[k].shuffle[first])
           \/ /\ cyc'[k].pc = "idle"
              /\ left = {}
              /\ lastCycle'.how = "empty"

C21_FullSweep == []C21_SweepInOrder /\ [][C21_SweepGoesOn]_vars

\* C21 happens: the first endpoint of a shuffle of two yielded nothing and the
\* second one is being queried.
C21_Witness ==
    \E k \in CycleSlots :
        /\ cyc[k].pc = "fetching"
        /\ Len(cyc[k].shuffle) = 2
        /\ cyc[k].queried = cyc[k].shuffle

\* ---------------------------------------------------------------------------
\* C22: the weighted pick never selects an endpoint of weight 0: whenever some
\* enabled endpoint has a positive weight, for every draw r in [0, totalWeight),
\* r = 0 included, selectRandomEndpoint returns an endpoint of positive weight.
\* ---------------------------------------------------------------------------
C22_PickHasPositiveWeight ==
    (/\ picked # NoPick
     /\ \E e \in picked.enabled : picked.weight[e] > 0) =>
        /\ picked.result \in picked.enabled
        /\ picked.weight[picked.result] > 0

\* ---------------------------------------------------------------------------
\* C23: the endpoint weights govern which endpoint a scheduled cycle queries: an
\* enabled endpoint whose weight is 0 is never queried by a scheduled cycle.
\* ---------------------------------------------------------------------------
C23_ZeroWeightNeverQueried ==
    [][\A k \in CycleSlots :
          Len(cyc'[k].queried) > Len(cyc[k].queried) =>
              weight[cyc'[k].queried[Len(cyc'[k].queried)]] > 0]_vars

\* ---------------------------------------------------------------------------
\* C24: with no endpoint enabled a cycle is a no-op: it queries no endpoint, sends
\* nothing and leaves the interval and the stores as they were.
\* ---------------------------------------------------------------------------
C24_NoEndpointCycleIsNoOp ==
    [][(/\ \A e \in Sources : ~enabled[e]
        /\ \A k \in CycleSlots : cyc[k].pc = "idle"
        /\ lastCycle'.parity # lastCycle.parity)
          => /\ \A k \in CycleSlots : cyc'[k].pc = "idle" /\ cyc'[k].queried = <<>>
             /\ currentInterval' = currentInterval
             /\ UNCHANGED <<seenItems, seenFile, recentHeadlines>>]_vars

\* ---------------------------------------------------------------------------
\* C25: after a shutdown request the scheduler reaches its terminal state: no
\* timer stays armed and no new cycle starts, whether the request came while a
\* timer was pending or while a cycle was in flight, and a cycle in flight ends.
\* ---------------------------------------------------------------------------
C25_Stopped ==
    lifecycle \in {"shutdown", "threw", "down"} => ~isRunning /\ pendingTimers = 0 /\ newsInterval = "null"

C25_NoCycleStarts ==
    lifecycle \in {"shutdown", "threw", "down"} =>
        /\ \A k \in CycleSlots : cyc[k].pc = "idle" => cyc'[k].pc = "idle"
        /\ (\A k \in CycleSlots : cyc[k].pc = "idle") => lastCycle' = lastCycle

C25_StopIsTerminal ==
    /\ []C25_Stopped
    /\ [][C25_NoCycleStarts]_vars
    /\ (lifecycle \in {"shutdown", "threw", "down"}) ~> [](\A k \in CycleSlots : cyc[k].pc = "idle")

\* C25 happens: the request came while a cycle was in flight; that cycle has ended
\* and armed no timer.
C25_Witness ==
    /\ lifecycle \in {"shutdown", "threw", "down"}
    /\ lastCycle.how \in {"empty", "delivered", "undelivered", "threw"}
    /\ lastCycle.delay = -1
    /\ pendingTimers = 0
    /\ \A k \in CycleSlots : cyc[k].pc = "idle"

\* ---------------------------------------------------------------------------
\* C26: shutdown does not release persisted state (shut the endpoints down, save
\* the similarity index) while a scheduled cycle is in flight.
\* ---------------------------------------------------------------------------
C26_ReleaseWaitsForCycle ==
    [][(lifecycle # "shutdown" /\ lifecycle' = "shutdown") =>
          \A k \in CycleSlots : cyc[k].pc = "idle"]_vars

\* ---------------------------------------------------------------------------
\* C27: graceful shutdown completes: NewsBot.shutdown stops the loop, shuts the
\* endpoints, the Discord service and the data manager down and emits 'shutdown'
\* without throwing.
\* ---------------------------------------------------------------------------
C27_ShutdownDoesNotThrow == lifecycle # "threw"

\* ---------------------------------------------------------------------------
\* C28: an adapter whose credentials are absent is force-disabled: after
\* construction, registration and initialization isEndpointEnabled() is false.
\* ---------------------------------------------------------------------------
C28_NoTokenMeansDisabled ==
    (mxPhase = "initialized" /\ ~mxToken) => ~mxEnabled

\* C29: the enabled flag takes effect at runtime: a fetchUpdate call that starts
\* while the endpoint is disabled returns null at once, without a request in
\* flight and without changing the seen store, its file or the similarity index.
C29_DisabledFetchIsNoOp ==
    [][\A who \in DOMAIN call :
          (call[who].pc = "idle" /\ call'[who].pc # "idle" /\ ~isEnabled) =>
             /\ call'[who].pc = "done"
             /\ call'[who].result = NoItem
             /\ call'[who].batch = <<>>
             /\ UNCHANGED <<seenItems, seenFile, recentHeadlines, embedCache, returned>>]_vars

\* C29 happens: after items were returned and indexed the endpoint was disabled,
\* and a call started after that has returned null without a request.
C29_Witness ==
    /\ ~isEnabled
    /\ fetches > 0
    /\ \E who \in DOMAIN call :
          call[who].pc = "done" /\ call[who].result = NoItem /\ call[who].order = <<>>
    /\ returned # {}
    /\ recentHeadlines # <<>>

\* C30: after the embedding provider failed to initialize in initialize(),
\* vectorEmbeddingEnabled stays false under every later operation.
C30_StaysDisabledAfterInitFailure ==
    embeddingInit = "failed" => ~vectorEmbeddingEnabled

\* A candidate the loop of endpoint ep has passed over: it fails a structural
\* step of that endpoint, or it is in the seen store (seen before the call, or
\* rejected and marked in it).
C31_PassedOver(ep, post, author) ==
    \/ IsOld(post, now)
    \/ seenItems[ep][post.id] # Absent
    \/ IF ep = "reddit" THEN AuthorMismatch(post, author) \/ IsDenied(post)
                        ELSE ~post.complete \/ ~IsEnglishContent(post)

\* A candidate that passes the structural steps of endpoint ep other than the
\* seen check.
C31_Passes(ep, post, author) ==
    IF ep = "reddit" THEN ~AuthorMismatch(post, author) /\ ~IsDenied(post)
                     ELSE post.complete /\ IsEnglishContent(post)

\* A call that returned an item returned the first candidate in fetch order that
\* no step rejected; a call that ended its last source with null examined every
\* candidate of the batch.
C31_FirstEligible ==
    \A who \in DOMAIN call :
        LET c == call[who]
        IN c.pc = "done" /\ c.batch # <<>> =>
              /\ c.result # NoItem =>
                    /\ c.idx \in 1..Len(c.batch)
                    /\ c.result = c.batch[c.idx]
                    /\ C31_Passes(endpoint, c.result, Head(c.order))
              /\ \A j \in 1..Len(c.batch) :
                    (c.result = NoItem \/ j < c.idx) =>
                        C31_PassedOver(endpoint, c.batch[j], Head(c.order))

\* A candidate rejected as a near duplicate does not end the batch: the loop goes
\* on to a later candidate that passes the structural steps, or to the end of the
\* batch, and the candidates in between were passed over.
C31_RejectionGoesOn ==
    \A who \in DOMAIN call :
        LET c == call[who]
            d == call'[who]
        IN (c.pc = "check" /\ d # c /\ ~(d.pc \in {"add", "done"} /\ d.idx = c.idx)) =>
              /\ seenItems'[endpoint][c.batch[c.idx].id] # Absent
              /\ d.pc \in {"check", "done"} =>
                    /\ d.idx > c.idx
                    /\ d.batch = c.batch
                    /\ d.pc = "check" =>
                          C31_Passes(endpoint, d.batch[d.idx], Head(d.order))
                    /\ \A j \in (c.idx + 1)..(d.idx - 1) :
                          j <= Len(c.batch) =>
                              \/ IsOld(c.batch[j], now)
                              \/ seenItems'[endpoint][c.batch[j].id] # Absent
                              \/ ~C31_Passes(endpoint, c.batch[j], Head(c.order))

\* C31: within one fetch a candidate that fails a step does not abort the batch:
\* the candidates after it are still examined in fetch order, and the candidate
\* returned is the first in fetch order that passes every step.
C31_FailureDoesNotAbortBatch ==
    []C31_FirstEligible /\ [][C31_RejectionGoesOn]_vars

\* C31 happens: a call returned the second candidate of its batch after the
\* first one, which passed every structural step, was rejected as a near
\* duplicate of a headline an earlier call had indexed.
C31_Witness ==
    \E who \in DOMAIN call :
        LET c == call[who]
        IN /\ c.pc = "done"
           /\ c.result # NoItem
           /\ c.idx = 2
           /\ C31_Passes(endpoint, c.batch[1], Head(c.order))
           /\ ~IsOld(c.batch[1], now)
           /\ c.batch[1].id \notin returned
           /\ seenItems[endpoint][c.batch[1].id] # Absent
           /\ vectorEmbeddingEnabled

\* C32: every item an adapter returns has a published/updated time that can be
\* read and that lies within the 24 hours before the time its recency step ran;
\* an item whose time is older, missing or unparseable is never returned.
C32_ReturnedIsRecent ==
    \A who \in DOMAIN call :
        (call[who].pc = "done" /\ call[who].result # NoItem) =>
            /\ call[who].result.created # NaN
            /\ call[who].result.created >= call[who].at - 24 * 60 * 60

\* C33: an article with a language tag other than the target language is
\* rejected; with no tag it is rejected iff fewer than 2 of the function words
\* occur as whole words anywhere in title+description, the last word of the text
\* included, except that a text shorter than 10 characters always passes.
C33_LanguageHeuristic ==
    languageCheck # NoLanguageCheck =>
        LET a == languageCheck.article
            words == {LowerText(a.titleWords[k]) : k \in 1..Len(a.titleWords)}
                        \cup {LowerText(a.descriptionWords[k]) :
                                 k \in 1..Len(a.descriptionWords)}
            length == Len(Trim(JoinWords(a.titleWords) \o <<" ">>
                                 \o JoinWords(a.descriptionWords)))
        IN /\ a.language \notin {"", "en"} => ~languageCheck.result
           /\ a.language = "" =>
                 languageCheck.result =
                    (length < 10 \/ Cardinality(words \cap EnglishIndicators) >= 2)

\* C34: when writing the seen-items file fails, markItemAsSeen still leaves the
\* id in the in-memory set, and the calling fetch goes on: it returns the first
\* candidate no step rejected, as it would with a working disk.
C34_WriteFailureDoesNotAbort ==
    ~diskOk =>
        /\ seenFile = [s \in DOMAIN seenFile |-> [i \in FetchItemIds |-> Absent]]
        /\ \A k \in 1..Len(markLog) : seenItems[endpoint][markLog[k].id] # Absent
        /\ \A who \in DOMAIN call :
              (call[who].pc = "done" /\ call[who].result # NoItem) =>
                  seenItems[endpoint][call[who].result.id] # Absent
        /\ C31_FirstEligible

\* C34 happens: with the file unwritable a call rejected and marked its first
\* candidate, went on and returned the second; both are in the in-memory set and
\* neither is in the file.
C34_Witness ==
    /\ ~diskOk
    /\ \E who \in DOMAIN call :
          LET c == call[who]
          IN /\ c.pc = "done"
             /\ c.result # NoItem
             /\ c.idx = 2
             /\ seenItems[endpoint][c.batch[1].id] # Absent
             /\ seenItems[endpoint][c.result.id] # Absent
             /\ seenFile[endpoint][c.batch[1].id] = Absent
             /\ seenFile[endpoint][c.result.id] = Absent
             /\ fetches = 1

\* C35: sendToChannels returns true iff at least one target channel accepted
\* the message (false when the transport is not ready, when no channel is
\* configured, when every send fails or every channel is unknown), and newsSent
\* is emitted iff it returned true.
C35_TrueIffSomeChannelAccepted ==
    delivery # NoDelivery =>
        /\ delivery.success =
              (/\ delivery.isReady
               /\ \E k \in 1..Len(delivery.channels) : delivery.channels[k] = "accepts")
        /\ delivery.newsSent = delivery.success

\* C35 happens: the transport was ready, one channel rejected the message, one
\* was unknown and one accepted it; the call returned true and newsSent was
\* emitted.
C35_Witness ==
    /\ delivery # NoDelivery
    /\ delivery.isReady
    /\ \E j, k, l \in 1..Len(delivery.channels) :
          /\ delivery.channels[j] = "rejects"
          /\ delivery.channels[k] = "unknown"
          /\ delivery.channels[l] = "accepts"
    /\ delivery.success
    /\ delivery.newsSent

\* C36: when two fetchUpdate calls on the same endpoint overlap with similarity
\* checking enabled, the same item id is never accepted and returned by both.
C36_NotReturnedByBoth ==
    \A who, other \in DOMAIN call :
        (/\ who # other
         /\ call[who].pc = "done" /\ call[who].result # NoItem
         /\ call[other].pc = "done" /\ call[other].result # NoItem)
            => call[who].result.id # call[other].result.id

\* C37: after any sequence of startNewsLoop and stopNewsLoop calls, a stop
\* followed by a start while a cycle is in flight included, at most one timer
\* chain is active: never two pending timers, nor a pending timer next to a cycle
\* in flight that will arm another.
C37_OneTimerChain ==
    /\ pendingTimers <= 1
    /\ ~(pendingTimers = 1 /\ isRunning /\ \E k \in CycleSlots : cyc[k].pc # "idle")

\* C38: no accepted item is lost: an item its adapter marked seen on acceptance
\* during a scheduled cycle is delivered to at least one channel in that cycle, or
\* it is still eligible for a later fetch (not in the seen store) when the cycle
\* ends, also when sendToChannels returned false or the sending threw.
C38_AcceptedItemNotLost ==
    [][\A k \in CycleSlots :
          (/\ cyc[k].pc = "sending"
           /\ cyc'[k].pc = "idle"
           /\ lastCycle'.how # "delivered")
             => seenItems'[cyc[k].queried[Len(cyc[k].queried)]][cyc[k].item] = Absent]_vars

\* C39: the interval is reset to the base interval only in cycles whose delivery
\* succeeded (sendNews returned true); a cycle that fetched an item but whose
\* sendNews returned false does not count as a successful post.
C39_ResetOnlyOnDelivery ==
    lastCycle.how = "undelivered" => lastCycle.after >= lastCycle.before

\* C40: in every reachable state of the scheduler
\* baseIntervalMinutes <= currentIntervalMinutes <= maxIntervalMinutes, for every
\* configured base interval, one above the 60-minute maximum included.
C40_IntervalWithinBounds ==
    /\ baseIntervalMinutes * 60 <= currentInterval
    /\ currentInterval <= MaxIntervalMinutes * 60
====
